---- MODULE Spec2Model ----
(***************************************************************************)
(* grana: the Runner driving a Workflow through one of the five strategies *)
(* on a single asyncio event loop.                                         *)
(*                                                                         *)
(* The event loop is a FIFO queue of handles (`ready`).  One task runs at  *)
(* a time (`running`) until it awaits something unfinished; every other    *)
(* task then stays where its program counter says.  The tasks are the main *)
(* task (Runner._run_all_actions with the strategy's __anext__ inlined),   *)
(* one runner task per emitted action (Runner._run_action), one body task  *)
(* per awaited action (ActionBase.run) and one event drainer per started   *)
(* action (Runner._dispatch_action_events_to_display).                     *)
(***************************************************************************)
EXTENDS Naturals, Sequences, FiniteSets

\* ------------------------------------------------------------------ bounds
MaxEdges == 2     \* dependency edges declared in a workflow
MaxMarked == 1    \* actions that are disabled or declared with severity: low
MaxFaults == 1    \* per run: renders that fail and bodies that end other than by returning
MaxSuspends == 1  \* per run: times a body awaits external I/O
MaxYields == 1    \* per run: actions whose body yields outcomes
MaxEmits == 2     \* per run: messages emitted by bodies
MaxAwaits == 2    \* times each user task awaits the action
MaxDeps == 3      \* dependencies declared by the actions handed to Workflow()

\* --------------------------------------------------------------- workflow
Single == <<"Foo">>
Pair == <<"Foo", "Bar">>
Triple == <<"Foo", "Bar", "Baz">>

None == "-"            \* Python's None for an action reference
Keys == {"k"}          \* outcome keys a body may yield
Msgs == {"", "x"}      \* messages a body may emit
Users == {"u1", "u2"}  \* user tasks that await an action themselves
Prefixes == {"", "pre"}   \* what a stdout line holds before its service marker
\* the expression of a marker ##grana[...]##: skip, a well-formed
\* yield-outcome-b64, an unrecognized verb, arguments that do not decode
Verbs == {"skip", "yield-outcome-b64", "unknown", "malformed"}

StrategyNames == {"free", "sequential", "strict-sequential", "loose", "strict"}

\* BaseStrategy.STRICT of the strategy class
STRICT(s) == s \in {"strict", "strict-sequential"}

\* the strategy class derives from LooseStrategy / from SequentialStrategy
IsLoose(s) == s \in {"loose", "strict"}
IsSequential(s) == s \in {"sequential", "strict-sequential"}

DepKinds == {"none", "loose", "strict"}   \* absent, ActionDependency(strict=False), (strict=True)

\* A workflow's dependencies are a function anc over its action names:
\* anc[n][m] says how action n depends on action m.

\* action.ancestors as a set of names
AncestorsOf(anc, n) == {m \in DOMAIN anc : anc[n][m] # "none"}

EdgeCount(anc) == Cardinality({p \in (DOMAIN anc) \X (DOMAIN anc) : anc[p[1]][p[2]] # "none"})

\* Workflow._establish_descendants: the names with no ancestors
Entrypoints(anc) == {n \in DOMAIN anc : AncestorsOf(anc, n) = {}}

\* Workflow._descendants_map[n]
DescendantsOf(anc, n) == {d \in DOMAIN anc : anc[d][n] # "none"}

\* Workflow._allocate_tiers: the loop over tiers; `mapped` is the domain of
\* action_name_to_tier_mapping, `current` is current_tier_actions_names
RECURSIVE AllocateTiers(_, _, _)
AllocateTiers(anc, mapped, current) ==
    LET fresh == current \ mapped
        candidates == UNION {DescendantsOf(anc, n) : n \in fresh}
    IN  IF candidates = {} THEN mapped \cup fresh
        ELSE AllocateTiers(anc, mapped \cup fresh, candidates)

\* Workflow._allocate_tiers: the same loop, keeping the tier given to each
\* name (`mapping` is action_name_to_tier_mapping, a function over the
\* mapped names) and returning it with the final step_tier
RECURSIVE TierMapping(_, _, _, _)
TierMapping(anc, mapping, current, step_tier) ==
    LET fresh == current \ DOMAIN mapping
        mapped == [n \in DOMAIN mapping \cup fresh |->
                     IF n \in DOMAIN mapping THEN mapping[n] ELSE step_tier]
        candidates == UNION {DescendantsOf(anc, n) : n \in fresh}
    IN  IF candidates = {} THEN [mapping |-> mapped, step_tier |-> step_tier]
        ELSE TierMapping(anc, mapped, candidates, step_tier + 1)

\* Workflow._tiers_sequence as _allocate_tiers builds it for the names ns:
\* step_tier + 1 lists, each name appended to the list of its tier
TiersSequence(ns, anc) ==
    LET r == TierMapping(anc, <<>>, Entrypoints(anc), 0)
    IN  [i \in 1..(r.step_tier + 1) |->
            SelectSeq(ns, LAMBDA n : n \in DOMAIN r.mapping /\ r.mapping[n] = i - 1)]

\* Workflow.__init__ raises no IntegrityError
Accepted(anc) ==
    /\ Entrypoints(anc) # {}
    /\ AllocateTiers(anc, {}, Entrypoints(anc)) = DOMAIN anc

\* the transitive ancestors of the names in S, S included
RECURSIVE AncestorClosure(_, _)
AncestorClosure(anc, S) ==
    LET T == S \cup UNION {AncestorsOf(anc, m) : m \in S}
    IN  IF T = S THEN S ELSE AncestorClosure(anc, T)

\* no action is its own transitive ancestor
Acyclic(anc) == \A n \in DOMAIN anc : n \notin AncestorClosure(anc, AncestorsOf(anc, n))

\* the accepted workflows over the names ns
Workflows(ns) ==
    LET S == {ns[i] : i \in 1..Len(ns)}
    IN  {anc \in [S -> [S -> DepKinds]] : EdgeCount(anc) <= MaxEdges /\ Accepted(anc)}

\* those in which the last action alone has ancestors, among the others
JoinWorkflows(ns) ==
    {anc \in Workflows(ns) :
        /\ \A i \in 1..(Len(ns) - 1) : AncestorsOf(anc, ns[i]) = {}
        /\ AncestorsOf(anc, ns[Len(ns)]) # {}
        /\ anc[ns[Len(ns)]][ns[Len(ns)]] = "none"}


\* ------------------------------------------------------------------ state
VARIABLES
    names,            \* the keys of the Workflow (a dict), in insertion order
    strategy,         \* C.STRATEGY_CLASS.NAME
    ancestors,        \* ancestors[n][m]: how action n depends on action m
    enabled,          \* ActionBase._enabled
    refused,          \* history: actions whose disable() has raised RuntimeError
    scanned,          \* history: the stdout lines ending with a service marker that
                      \* EmissionScannerActionBase.emit was given
    lexer,            \* a TemplarStringLexer being iterated: _data, _caret, the locals of __iter__
                      \* and what it has yielded
    templar,          \* a Templar: its mode, context, _depth and the calls of _internal_render
                      \* that have not returned
    severity,         \* ActionBase._severity
    emitters,         \* the actions whose run() calls emit
    badDisplay,       \* the display is one whose callbacks raise
    missing,          \* per action: the ancestor it declares that is no key of the workflow
                      \* ("plain", "external"), "popped" once removed from action.ancestors
    built,            \* how far Workflow.__init__ has come, or the IntegrityError it raised
    tiers,            \* Workflow._tiers_sequence
    iterated,         \* history: what iter_actions_by_tier has yielded
    status,           \* ActionBase._status
    fut,              \* ActionBase._maybe_finish_flag: "pending", "result" or "exception"
    yielded,          \* ActionBase._yielded_keys (the keys)
    bpc,              \* ActionBase._running_task: where the body task is
    bmode,            \* what a sub-task of the body has raised: nothing ("normal"), ActionSkip, or another error
    suspends,         \* how many times bodies have awaited external I/O
    faults,           \* how many renders have failed and bodies have ended other than by returning
    rpc,              \* where the Runner._run_action task of each action is
    dpc,              \* where the event drainer task of each action is
    outcomes,         \* Runner._outcomes (the keys)
    execution_failed, \* Runner._execution_failed
    mpc,              \* where the main task (Runner._run_all_actions) is
    unprocessed,      \* FreeStrategy._unprocessed
    current,          \* SequentialStrategy._current
    active,           \* LooseStrategy._active_actions_map
    blockers,         \* LooseStrategy._action_blockers: the values
    blockerKeys,      \* LooseStrategy._action_blockers: the keys still present
    nextAction,       \* next_action in LooseStrategy.__anext__
    emitted,          \* `action` in the async for of Runner._run_all_actions
    actionRunners,    \* action_runners of Runner._run_all_actions, in insertion order
    finList,          \* what is left of list(action_runners.items()) in the finalizing loop
    ready,            \* the event loop's queue of handles
    running,          \* the task that runs now, or Idle
    futCbs,           \* done callbacks of each completion future
    taskCbs,          \* tasks awaiting each task
    waiting,          \* tasks inside asyncio.wait whose waiter is not resolved
    queue,            \* ActionBase._event_queue
    gpc,              \* where the queue_getter task of ActionBase.read_events is
    gres,             \* the result of a finished queue_getter task
    emits,            \* how many messages bodies have emitted
    upc,              \* where each user task awaiting the action is
    ures,             \* history: how each `await action` of a user task ended
    forwarded,        \* history: messages read_events has yielded
    log,              \* history: messages emitted
    early,            \* history: how many messages were emitted before the action was done
    emittedSet,       \* history: actions __anext__ has returned
    reEmitted,        \* history: actions __anext__ has returned more than once
    stratSkipped,     \* history: actions skipped by BaseStrategy._skip_action
    errReported,      \* history: actions passed to display.emit_action_error
    invalidState      \* history: set_result was attempted on a fulfilled future

actionVars == <<status, fut, yielded>>
bodyVars == <<bpc, bmode, suspends, faults>>
strategyVars == <<unprocessed, current, active, blockers, blockerKeys, nextAction>>
mainVars == <<mpc, emitted, actionRunners, finList>>
loopVars == <<ready, running, futCbs, taskCbs, waiting>>
workflowVars == <<missing, built, tiers, iterated>>
renderVars == <<lexer, templar>>
configVars == <<names, strategy, ancestors, enabled, refused, scanned, severity, emitters, badDisplay,
                workflowVars, renderVars>>
emitVars == <<emits, log, early>>
readVars == <<gres, forwarded>>
eventVars == <<queue, gpc, emitVars, readVars>>
userVars == <<upc, ures>>

Actions == DOMAIN ancestors   \* the names of the workflow
Index(n) == CHOOSE i \in 1..Len(names) : names[i] = n
historyVars == <<emittedSet, reEmitted, stratSkipped, errReported, invalidState>>

vars == <<configVars, eventVars, userVars, actionVars, bodyVars, rpc, dpc, outcomes, execution_failed,
          strategyVars, mainVars, loopVars, historyVars>>

Idle == [t |-> "idle", a |-> None]

\* no TemplarStringLexer and no Templar exists
NoLexer == None
NoTemplar == None
Main == [t |-> "main", a |-> None]
RunnerTask(a) == [t |-> "runner", a |-> a]
BodyTask(a) == [t |-> "body", a |-> a]
DrainerTask(a) == [t |-> "drainer", a |-> a]
GetterTask(a) == [t |-> "getter", a |-> a]
UserTask(u) == [t |-> "user", a |-> u]
TaskIds ==
    {Main} \cup {UserTask(u) : u \in Users}
           \cup {[t |-> k, a |-> a] : k \in {"runner", "body", "drainer", "getter"}, a \in Actions}

\* loop.call_soon(task.__step) and loop.call_soon(_on_completion) of asyncio.wait
StepHandle(task) == [kind |-> "step", task |-> task]
WaitHandle(task) == [kind |-> "oncompl", task |-> task]

TerminalStatuses == {"SUCCESS", "WARNING", "FAILURE", "SKIPPED", "OMITTED"}
\* how a finished body task ended
BodyResults == {"ok", "skip", "runerr", "exc", "cancelled"}

\* ActionBase.done
Done(a) == fut[a] # "pending" \/ status[a] \in {"SKIPPED", "OMITTED"}

\* the status ActionBase._internal_fail assigns
FailStatus(a) == IF severity[a] = "normal" THEN "FAILURE" ELSE "WARNING"

\* Workflow.__init__ has returned: no missing ancestor is left, the tiers
\* are allocated, and nobody has iterated over them
Constructed ==
    /\ missing = [n \in Actions |-> "none"]
    /\ built = "ok"
    /\ tiers = TiersSequence(names, ancestors)
    /\ iterated = <<>>

\* the state once Runner._run_all_actions has filled the outcomes map, for
\* a workflow over the names ns, drawn from ws with at most mk marked
\* actions, and run under a strategy of ss; em says whether the bodies emit
\* messages, ds which displays are tried (FALSE: none of its callbacks
\* raises, TRUE: all of them do)
InitOver(ns, ss, ws, mk, em, ds) ==
    /\ names = ns
    /\ strategy \in ss
    /\ ancestors \in ws
    /\ Constructed
    /\ emitters = IF em THEN Actions ELSE {}
    /\ badDisplay \in ds
    /\ enabled \in [Actions -> BOOLEAN]
    /\ severity \in [Actions -> {"normal", "low"}]
    /\ Cardinality({a \in Actions : ~enabled[a]})
         + Cardinality({a \in Actions : severity[a] = "low"}) <= mk
    /\ status = [a \in Actions |-> "PENDING"]
    /\ fut = [a \in Actions |-> "pending"]
    /\ yielded = [a \in Actions |-> {}]
    /\ bpc = [a \in Actions |-> "none"]
    /\ bmode = [a \in Actions |-> "normal"]
    /\ refused = {}
    /\ scanned = {}
    /\ lexer = NoLexer
    /\ templar = NoTemplar
    /\ suspends = 0
    /\ faults = 0
    /\ rpc = [a \in Actions |-> "none"]
    /\ dpc = [a \in Actions |-> "none"]
    /\ outcomes = [a \in Actions |-> {}]
    /\ execution_failed = FALSE
    /\ mpc = "anext"
    /\ unprocessed = IF IsLoose(strategy) THEN <<>> ELSE names
    /\ current = None
    /\ active = {}
    /\ blockers = [n \in Actions |-> IF IsLoose(strategy) THEN AncestorsOf(ancestors, n) ELSE {}]
    /\ blockerKeys = IF IsLoose(strategy) THEN Actions ELSE {}
    /\ nextAction = None
    /\ emitted = None
    /\ actionRunners = <<>>
    /\ finList = <<>>
    /\ ready = <<>>
    /\ running = Main
    /\ futCbs = [a \in Actions |-> <<>>]
    /\ taskCbs = [t \in TaskIds |-> <<>>]
    /\ waiting = {}
    /\ queue = [a \in Actions |-> <<>>]
    /\ gpc = [a \in Actions |-> "none"]
    /\ gres = [a \in Actions |-> None]
    /\ emits = 0
    /\ upc = [u \in Users |-> "none"]
    /\ ures = [u \in Users |-> <<>>]
    /\ forwarded = [a \in Actions |-> <<>>]
    /\ log = [a \in Actions |-> <<>>]
    /\ early = [a \in Actions |-> 0]
    /\ emittedSet = {}
    /\ reEmitted = {}
    /\ stratSkipped = {}
    /\ errReported = {}
    /\ invalidState = FALSE

Init == InitOver(Pair, StrategyNames, Workflows(Pair), MaxMarked, FALSE, {FALSE})

\* one action whose body emits messages, under a display that never raises
\* or under one that always does
InitEvents == InitOver(Single, StrategyNames, Workflows(Single), MaxMarked, TRUE, BOOLEAN)

\* One action outside any Runner: a reader task iterates read_events and
\* user tasks await the action.  The reader and the first user task are
\* created before the loop runs them, in either order (the user tasks being
\* interchangeable, the first one is any one of them); the action is fresh,
\* or a strategy has skipped it, or a Runner has omitted it.
InitAction ==
    /\ names = Single
    /\ strategy = "free"
    /\ ancestors \in Workflows(Single)
    /\ Constructed
    /\ emitters = Actions
    /\ badDisplay = FALSE
    /\ enabled = [a \in Actions |-> TRUE]
    /\ severity \in [Actions -> {"normal", "low"}]
    /\ status \in [Actions -> {"PENDING", "SKIPPED", "OMITTED"}]
    /\ fut = [a \in Actions |-> IF status[a] = "PENDING" THEN "pending" ELSE "result"]
    /\ yielded = [a \in Actions |-> {}]
    /\ bpc = [a \in Actions |-> "none"]
    /\ bmode = [a \in Actions |-> "normal"]
    /\ refused = {}
    /\ scanned = {}
    /\ lexer = NoLexer
    /\ templar = NoTemplar
    /\ suspends = 0
    /\ faults = 0
    /\ rpc = [a \in Actions |-> "none"]
    /\ dpc = [a \in Actions |-> "sched"]
    /\ outcomes = [a \in Actions |-> {}]
    /\ execution_failed = FALSE
    /\ mpc = "off"
    /\ unprocessed = <<>>
    /\ current = None
    /\ active = {}
    /\ blockers = [n \in Actions |-> {}]
    /\ blockerKeys = {}
    /\ nextAction = None
    /\ emitted = None
    /\ actionRunners = <<>>
    /\ finList = <<>>
    /\ \E a \in Actions, u \in {CHOOSE v \in Users : TRUE} :
          /\ upc = [v \in Users |-> IF v = u THEN "call" ELSE "none"]
          /\ ready \in {<<StepHandle(DrainerTask(a)), StepHandle(UserTask(u))>>,
                        <<StepHandle(UserTask(u)), StepHandle(DrainerTask(a))>>}
    /\ running = Idle
    /\ futCbs = [a \in Actions |-> <<>>]
    /\ taskCbs = [t \in TaskIds |-> <<>>]
    /\ waiting = {}
    /\ queue = [a \in Actions |-> <<>>]
    /\ gpc = [a \in Actions |-> "none"]
    /\ gres = [a \in Actions |-> None]
    /\ emits = 0
    /\ ures = [u \in Users |-> <<>>]
    /\ forwarded = [a \in Actions |-> <<>>]
    /\ log = [a \in Actions |-> <<>>]
    /\ early = [a \in Actions |-> 0]
    /\ emittedSet = {}
    /\ reEmitted = {}
    /\ stratSkipped = {}
    /\ errReported = {}
    /\ invalidState = FALSE

\* three actions under the dependency-tracking strategies, the first two
\* being entrypoints, all enabled and of normal severity
InitJoin == InitOver(Triple, {"loose", "strict"}, JoinWorkflows(Triple), 0, FALSE, {FALSE})

\* two actions of an acyclic workflow under the dependency-tracking
\* strategies
InitLoose ==
    InitOver(Pair, {"loose", "strict"}, {anc \in Workflows(Pair) : Acyclic(anc)}, MaxMarked,
             FALSE, {FALSE})

\* The actions handed to Workflow(): three of them, declaring at most
\* MaxDeps dependencies among themselves or on a name that is no key of the
\* workflow (external or not); no Runner exists yet.
InitWorkflow ==
    /\ names = Triple
    /\ strategy = "free"
    /\ ancestors \in [{"Foo", "Bar", "Baz"} -> [{"Foo", "Bar", "Baz"} -> DepKinds]]
    /\ missing \in [Actions -> {"none", "plain", "external"}]
    /\ EdgeCount(ancestors) + Cardinality({n \in Actions : missing[n] # "none"}) <= MaxDeps
    /\ built = "new"
    /\ tiers = <<>>
    /\ iterated = <<>>
    /\ emitters = {}
    /\ badDisplay = FALSE
    /\ enabled = [a \in Actions |-> TRUE]
    /\ severity = [a \in Actions |-> "normal"]
    /\ status = [a \in Actions |-> "PENDING"]
    /\ fut = [a \in Actions |-> "pending"]
    /\ yielded = [a \in Actions |-> {}]
    /\ bpc = [a \in Actions |-> "none"]
    /\ bmode = [a \in Actions |-> "normal"]
    /\ refused = {}
    /\ scanned = {}
    /\ lexer = NoLexer
    /\ templar = NoTemplar
    /\ suspends = 0
    /\ faults = 0
    /\ rpc = [a \in Actions |-> "none"]
    /\ dpc = [a \in Actions |-> "none"]
    /\ outcomes = [a \in Actions |-> {}]
    /\ execution_failed = FALSE
    /\ mpc = "off"
    /\ unprocessed = <<>>
    /\ current = None
    /\ active = {}
    /\ blockers = [n \in Actions |-> {}]
    /\ blockerKeys = {}
    /\ nextAction = None
    /\ emitted = None
    /\ actionRunners = <<>>
    /\ finList = <<>>
    /\ ready = <<>>
    /\ running = Idle
    /\ futCbs = [a \in Actions |-> <<>>]
    /\ taskCbs = [t \in TaskIds |-> <<>>]
    /\ waiting = {}
    /\ queue = [a \in Actions |-> <<>>]
    /\ gpc = [a \in Actions |-> "none"]
    /\ gres = [a \in Actions |-> None]
    /\ emits = 0
    /\ upc = [u \in Users |-> "none"]
    /\ ures = [u \in Users |-> <<>>]
    /\ forwarded = [a \in Actions |-> <<>>]
    /\ log = [a \in Actions |-> <<>>]
    /\ early = [a \in Actions |-> 0]
    /\ emittedSet = {}
    /\ reEmitted = {}
    /\ stratSkipped = {}
    /\ errReported = {}
    /\ invalidState = FALSE

\* ------------------------------------------------------ Workflow.__init__
\* what Workflow.__init__ leaves unchanged
NotWorkflow ==
    <<names, strategy, enabled, refused, scanned, renderVars, severity, emitters, badDisplay, eventVars, userVars,
      actionVars,
      bodyVars, rpc, dpc, outcomes, execution_failed, strategyVars, mainVars, loopVars,
      historyVars>>

\* (variant) a missing external ancestor is kept and reported like any other
EstablishDescendantsNoExternal ==
    /\ built = "new"
    /\ missing' = missing
    /\ built' = IF \E n \in Actions : missing[n] # "none" THEN "missing"
                ELSE IF Entrypoints(ancestors) = {} THEN "no_entrypoints"
                ELSE "established"
    /\ UNCHANGED <<ancestors, tiers, iterated, NotWorkflow>>

\* Workflow._establish_descendants: missing external ancestors are popped,
\* a missing ancestor that is not external or the lack of any entrypoint
\* raises IntegrityError
EstablishDescendants ==
    /\ built = "new"
    /\ missing' = [n \in Actions |-> IF missing[n] = "external" THEN "popped" ELSE missing[n]]
    /\ built' = IF \E n \in Actions : missing[n] = "plain" THEN "missing"
                ELSE IF Entrypoints(ancestors) = {} THEN "no_entrypoints"
                ELSE "established"
    /\ UNCHANGED <<ancestors, tiers, iterated, NotWorkflow>>

\* Workflow._allocate_tiers: IntegrityError if a name got no tier
AllocateTiersCall ==
    /\ built = "established"
    /\ IF AllocateTiers(ancestors, {}, Entrypoints(ancestors)) # Actions
       THEN /\ built' = "unreachable"
            /\ tiers' = tiers
       ELSE /\ built' = "ok"
            /\ tiers' = TiersSequence(names, ancestors)
    /\ UNCHANGED <<ancestors, missing, iterated, NotWorkflow>>

\* what the generator of iter_actions_by_tier yields, in order
TierItems ==
    LET RECURSIVE Items(_)
        Items(i) ==
            IF i > Len(tiers) THEN <<>>
            ELSE [j \in 1..Len(tiers[i]) |-> <<i - 1, tiers[i][j]>>] \o Items(i + 1)
    IN  Items(1)

\* (variant) the actions are yielded in insertion order, each with its tier
IterActionsInInsertionOrder ==
    /\ built = "ok"
    /\ Len(iterated) < Len(names)
    /\ LET n == names[Len(iterated) + 1]
           t == CHOOSE i \in 1..Len(tiers) : \E j \in 1..Len(tiers[i]) : tiers[i][j] = n
       IN  iterated' = Append(iterated, <<t - 1, n>>)
    /\ UNCHANGED <<ancestors, missing, built, tiers, NotWorkflow>>

\* Workflow.iter_actions_by_tier: the next item is yielded
IterActionsByTier ==
    /\ built = "ok"
    /\ Len(iterated) < Len(TierItems)
    /\ iterated' = Append(iterated, TierItems[Len(iterated) + 1])
    /\ UNCHANGED <<ancestors, missing, built, tiers, NotWorkflow>>

\* ------------------------------------------------------------ event loop
\* `task` runs now: it is in the middle of its step, or the loop is idle
\* and the next handle of the queue is a step of this task
Runs(task) ==
    \/ running = task
    \/ running = Idle /\ ready # <<>> /\ Head(ready) = StepHandle(task)

\* the queue once the step that runs now has been taken from it
Q == IF running = Idle THEN Tail(ready) ELSE ready

\* asyncio.wait's _on_completion: the first completion resolves the waiter,
\* which schedules the waiting task; later ones find the waiter resolved
OnCompletion ==
    /\ running = Idle
    /\ ready # <<>>
    /\ Head(ready).kind = "oncompl"
    /\ LET t == Head(ready).task IN
        IF t \in waiting
        THEN /\ waiting' = waiting \ {t}
             /\ ready' = Append(Tail(ready), StepHandle(t))
        ELSE /\ waiting' = waiting
             /\ ready' = Tail(ready)
    /\ UNCHANGED <<configVars, eventVars, userVars, actionVars, bodyVars, rpc, dpc, outcomes, execution_failed,
                   strategyVars, mainVars, running, futCbs, taskCbs, historyVars>>

\* the handles call_soon queues when a task finishes: one step per awaiting task
WakeAll(task) == [i \in 1..Len(taskCbs[task]) |-> StepHandle(taskCbs[task][i])]

\* what asyncio.wait leaves behind when it returns: its callbacks are removed
\* from the futures, and its already queued _on_completion calls do nothing
DropWait(q, task) == LET keep(h) == h # WaitHandle(task) IN SelectSeq(q, keep)

\* a sequence without the element x
Without(q, x) == LET keep(y) == y # x IN SelectSeq(q, keep)

\* ----------------------------------------------------------- action body
\* ActionBase.run is subclass code: each time the body task is scheduled it
\* may yield outcomes and then await external I/O, return, skip(), fail(),
\* raise, or (as ShellAction does) have skip() called in a sub-task whose
\* ActionSkip it re-raises once its other sub-tasks are over.

\* the external I/O a suspended body awaits completes
IOComplete(a) ==
    /\ bpc[a] = "io"
    /\ running = Idle
    /\ bpc' = [bpc EXCEPT ![a] = "woken"]
    /\ ready' = Append(ready, StepHandle(BodyTask(a)))
    /\ UNCHANGED <<configVars, eventVars, userVars, actionVars, bmode, suspends, faults, rpc, dpc, outcomes,
                   execution_failed, strategyVars, mainVars, running, futCbs, taskCbs,
                   waiting, historyVars>>

BodyRuns(a) ==
    /\ bpc[a] \in {"sched", "woken"}
    /\ Runs(BodyTask(a))

\* the body task ends with result r: its awaiters are scheduled
BodyEnds(a, r, q) ==
    /\ bpc' = [bpc EXCEPT ![a] = r]
    /\ ready' = q \o WakeAll(BodyTask(a))
    /\ taskCbs' = [taskCbs EXCEPT ![BodyTask(a)] = <<>>]
    /\ running' = Idle

\* the body task of a, suspended on its I/O, is cancelled (Task.cancel, by
\* the cancellation of the task that awaits it or by the loop's shutdown):
\* it is woken with CancelledError
Cancel(a) ==
    /\ bpc[a] = "io"
    /\ running = Idle
    /\ bpc' = [bpc EXCEPT ![a] = "cancelling"]
    /\ ready' = Append(ready, StepHandle(BodyTask(a)))
    /\ UNCHANGED <<configVars, eventVars, userVars, actionVars, bmode, suspends, faults, rpc, dpc, outcomes,
                   execution_failed, strategyVars, mainVars, running, futCbs, taskCbs,
                   waiting, historyVars>>

\* run() does not catch the CancelledError: the body task ends cancelled
BodyCancelled(a) ==
    /\ bpc[a] = "cancelling"
    /\ Runs(BodyTask(a))
    /\ BodyEnds(a, "cancelled", Q)
    /\ UNCHANGED <<configVars, eventVars, userVars, actionVars, bmode, suspends, faults, rpc, dpc, outcomes,
                   execution_failed, strategyVars, mainVars, futCbs, waiting, historyVars>>

\* ActionBase.yield_outcome, for each key of ks
YieldOutcomes(a) ==
    \E ks \in SUBSET Keys :
        /\ \/ ks \subseteq yielded[a]
           \/ yielded[a] # {}
           \/ Cardinality({b \in Actions : yielded[b] # {}}) < MaxYields
        /\ yielded' = [yielded EXCEPT ![a] = @ \cup ks]

\* ActionBase.emit, for each message of a sequence ms: put_nowait appends
\* to the queue and wakes the getter that waits on it
Emissions(a) ==
    IF a \in emitters
    THEN UNION {[1..n -> Msgs] : n \in 0..(IF emits < MaxEmits THEN MaxEmits - emits ELSE 0)}
    ELSE {<<>>}

EmitMessages(a) ==
    \E ms \in Emissions(a) :
        /\ queue' = [queue EXCEPT ![a] = @ \o ms]
        /\ gpc' = IF ms # <<>> /\ gpc[a] = "wait" THEN [gpc EXCEPT ![a] = "woken"] ELSE gpc
        /\ emits' = emits + Len(ms)
        /\ log' = [log EXCEPT ![a] = @ \o ms]
        /\ early' = IF Done(a) THEN early ELSE [early EXCEPT ![a] = @ + Len(ms)]

\* the loop's queue once the running body step has emitted its messages
QE(a) == IF gpc'[a] # gpc[a] THEN Append(Q, StepHandle(GetterTask(a))) ELSE Q

\* the body ends other than by returning
Fault ==
    /\ faults < MaxFaults
    /\ faults' = faults + 1

BodySuspend(a) ==
    /\ BodyRuns(a)
    /\ bmode[a] = "normal"
    /\ suspends < MaxSuspends
    /\ YieldOutcomes(a)
    /\ EmitMessages(a)
    /\ bpc' = [bpc EXCEPT ![a] = "io"]
    /\ suspends' = suspends + 1
    /\ ready' = QE(a)
    /\ running' = Idle
    /\ UNCHANGED <<configVars, readVars, userVars, status, fut, bmode, faults, rpc, dpc, outcomes,
                   execution_failed, strategyVars, mainVars, futCbs, taskCbs, waiting,
                   historyVars>>

BodyReturn(a) ==
    /\ BodyRuns(a)
    /\ bmode[a] = "normal"
    /\ YieldOutcomes(a)
    /\ EmitMessages(a)
    /\ BodyEnds(a, "ok", QE(a))
    /\ UNCHANGED <<configVars, readVars, userVars, status, fut, bmode, suspends, faults, rpc, dpc, outcomes,
                   execution_failed, strategyVars, mainVars, futCbs, waiting, historyVars>>

\* ActionBase._internal_skip: the status is set, then set_result either
\* fulfils the pending future or raises InvalidStateError
InternalSkip(a) ==
    /\ status' = [status EXCEPT ![a] = "SKIPPED"]
    /\ IF fut[a] = "pending"
       THEN /\ fut' = [fut EXCEPT ![a] = "result"]
            /\ futCbs' = [futCbs EXCEPT ![a] = <<>>]
            /\ invalidState' = invalidState
       ELSE /\ UNCHANGED <<fut, futCbs>>
            /\ invalidState' = TRUE

\* the handles queued when InternalSkip / InternalOmit / InternalFail fulfil the future
FutHandles(a) == IF fut[a] = "pending" THEN futCbs[a] ELSE <<>>

\* ActionBase.skip called by the body itself
BodySkip(a) ==
    /\ BodyRuns(a)
    /\ bmode[a] = "normal"
    /\ Fault
    /\ YieldOutcomes(a)
    /\ EmitMessages(a)
    /\ InternalSkip(a)
    /\ BodyEnds(a, IF fut[a] = "pending" THEN "skip" ELSE "exc", QE(a) \o FutHandles(a))
    /\ UNCHANGED <<configVars, readVars, userVars, bmode, suspends, rpc, dpc, outcomes, execution_failed,
                   strategyVars, mainVars, waiting, emittedSet, reEmitted, stratSkipped,
                   errReported>>

\* EmissionScannerActionBase.emit called by the body on one line made of a
\* prefix and a service marker: memorized_prefix takes the prefix, then
\* _process_service_message_expression either calls skip(), which raises
\* ActionSkip through emit and run(), or yields the outcome, or logs a
\* warning; a non-empty memorized_prefix is emitted after the loop
ScannerEmit(a) ==
    /\ BodyRuns(a)
    /\ bmode[a] = "normal"
    /\ emits < MaxEmits
    /\ emits' = emits + 1
    /\ \E p \in Prefixes, v \in Verbs :
          /\ scanned' = scanned \cup {[prefix |-> p, verb |-> v]}
          /\ IF v = "skip"
             THEN /\ Fault
                  /\ InternalSkip(a)
                  /\ BodyEnds(a, IF fut[a] = "pending" THEN "skip" ELSE "exc", Q \o FutHandles(a))
                  /\ UNCHANGED <<queue, gpc, log, early, yielded>>
             ELSE /\ yielded' = IF v = "yield-outcome-b64"
                                THEN [yielded EXCEPT ![a] = @ \cup Keys] ELSE yielded
                  /\ queue' = IF p = "" THEN queue ELSE [queue EXCEPT ![a] = Append(@, p)]
                  /\ log' = IF p = "" THEN log ELSE [log EXCEPT ![a] = Append(@, p)]
                  /\ early' = IF p = "" \/ Done(a) THEN early ELSE [early EXCEPT ![a] = @ + 1]
                  /\ gpc' = IF p # "" /\ gpc[a] = "wait" THEN [gpc EXCEPT ![a] = "woken"] ELSE gpc
                  /\ ready' = QE(a)
                  /\ running' = BodyTask(a)
                  /\ UNCHANGED <<status, fut, futCbs, invalidState, bpc, taskCbs, faults>>
    /\ UNCHANGED <<names, strategy, ancestors, enabled, refused, severity, emitters, badDisplay,
                   workflowVars, renderVars, readVars, userVars, bmode, suspends, rpc, dpc, outcomes,
                   execution_failed, strategyVars, mainVars, waiting, emittedSet, reEmitted,
                   stratSkipped, errReported>>

\* ActionBase.skip called in a sub-task of the body (ShellAction._read_stdout
\* -> EmissionScannerActionBase.emit): the body goes on awaiting the others
BodySubSkip(a) ==
    /\ BodyRuns(a)
    /\ bmode[a] = "normal"
    /\ suspends < MaxSuspends
    /\ Fault
    /\ YieldOutcomes(a)
    /\ EmitMessages(a)
    /\ InternalSkip(a)
    /\ bmode' = [bmode EXCEPT ![a] = IF fut[a] = "pending" THEN "skipped" ELSE "failing"]
    /\ bpc' = [bpc EXCEPT ![a] = "io"]
    /\ suspends' = suspends + 1
    /\ ready' = QE(a) \o FutHandles(a)
    /\ running' = Idle
    /\ UNCHANGED <<configVars, readVars, userVars, rpc, dpc, outcomes, execution_failed, strategyVars, mainVars,
                   taskCbs, waiting, emittedSet, reEmitted, stratSkipped, errReported>>

\* asyncio.gather re-raises what the sub-task raised
BodyReraise(a) ==
    /\ BodyRuns(a)
    /\ bmode[a] # "normal"
    /\ EmitMessages(a)
    /\ BodyEnds(a, IF bmode[a] = "skipped" THEN "skip" ELSE "exc", QE(a))
    /\ UNCHANGED <<configVars, readVars, userVars, actionVars, bmode, suspends, faults, rpc, dpc, outcomes,
                   execution_failed, strategyVars, mainVars, futCbs, waiting, historyVars>>

\* ActionBase._internal_fail: does nothing once the future is done
InternalFail(a) ==
    IF fut[a] = "pending"
    THEN /\ status' = [status EXCEPT ![a] = FailStatus(a)]
         /\ fut' = [fut EXCEPT ![a] = "exception"]
         /\ futCbs' = [futCbs EXCEPT ![a] = <<>>]
    ELSE UNCHANGED <<status, fut, futCbs>>

\* ActionBase.fail called by the body
BodyFail(a) ==
    /\ BodyRuns(a)
    /\ bmode[a] = "normal"
    /\ Fault
    /\ YieldOutcomes(a)
    /\ EmitMessages(a)
    /\ InternalFail(a)
    /\ BodyEnds(a, "runerr", QE(a) \o FutHandles(a))
    /\ UNCHANGED <<configVars, readVars, userVars, bmode, suspends, rpc, dpc, outcomes, execution_failed,
                   strategyVars, mainVars, waiting, historyVars>>

\* the body raises ActionRunError without calling fail()
BodyRaiseRunError(a) ==
    /\ BodyRuns(a)
    /\ bmode[a] = "normal"
    /\ Fault
    /\ YieldOutcomes(a)
    /\ EmitMessages(a)
    /\ BodyEnds(a, "runerr", QE(a))
    /\ UNCHANGED <<configVars, readVars, userVars, status, fut, bmode, suspends, rpc, dpc, outcomes,
                   execution_failed, strategyVars, mainVars, futCbs, waiting, historyVars>>

\* the body raises any other Exception
BodyRaise(a) ==
    /\ BodyRuns(a)
    /\ bmode[a] = "normal"
    /\ Fault
    /\ YieldOutcomes(a)
    /\ EmitMessages(a)
    /\ BodyEnds(a, "exc", QE(a))
    /\ UNCHANGED <<configVars, readVars, userVars, status, fut, bmode, suspends, rpc, dpc, outcomes,
                   execution_failed, strategyVars, mainVars, futCbs, waiting, historyVars>>

\* ----------------------------------------------------- ActionBase.disable
\* (variant) disable() does not look at the status
DisableAnyStatus(a) == [raised |-> FALSE, enabled |-> FALSE]

\* ActionBase.disable: whether it raises RuntimeError, and _enabled after it
Disable(a) ==
    IF status[a] # "PENDING" THEN [raised |-> TRUE, enabled |-> enabled[a]]
    ELSE [raised |-> FALSE, enabled |-> FALSE]

\* what is left alone by a call of disable() that is not made by a body
NotDisable ==
    <<names, strategy, ancestors, scanned, renderVars, severity, emitters, badDisplay, workflowVars, eventVars,
      userVars, actionVars, bmode, suspends, rpc, dpc, outcomes, execution_failed, strategyVars, mainVars,
      futCbs, waiting, historyVars>>

\* action.disable() called by code that runs between two handles of the
\* loop (as the display's on_plan_interaction does before the run)
DisableCall(a) ==
    /\ running = Idle
    /\ enabled' = [enabled EXCEPT ![a] = Disable(a).enabled]
    /\ refused' = IF Disable(a).raised THEN refused \cup {a} ELSE refused
    /\ UNCHANGED <<NotDisable, bpc, faults, ready, running, taskCbs>>

\* the body calls self.disable(): the RuntimeError ends the body task
BodyDisable(a) ==
    /\ BodyRuns(a)
    /\ bmode[a] = "normal"
    /\ enabled' = [enabled EXCEPT ![a] = Disable(a).enabled]
    /\ refused' = IF Disable(a).raised THEN refused \cup {a} ELSE refused
    /\ IF Disable(a).raised
       THEN /\ Fault
            /\ BodyEnds(a, "exc", Q)
       ELSE /\ ready' = Q
            /\ running' = BodyTask(a)
            /\ UNCHANGED <<bpc, faults, taskCbs>>
    /\ UNCHANGED NotDisable

\* BaseStrategy._skip_action(a) called between two handles of the loop on an
\* action that has not been started, or that is SKIPPED already: ActionSkip
\* is swallowed, the InvalidStateError of set_result is not
SkipActionCall(a) ==
    /\ running = Idle
    /\ status[a] \in {"PENDING", "SKIPPED"}
    /\ InternalSkip(a)
    /\ stratSkipped' = stratSkipped \cup {a}
    /\ ready' = ready \o FutHandles(a)
    /\ UNCHANGED <<configVars, eventVars, userVars, yielded, bodyVars, rpc, dpc, outcomes,
                   execution_failed, strategyVars, mainVars, running, taskCbs, waiting,
                   emittedSet, reEmitted, errReported>>

\* ------------------------------------------------------ ActionBase._await
\* The part of _await before `await self._running_task`, run by `task`:
\* a done future answers at once; else the body task is created if there is
\* none (status RUNNING) and awaited.  `pcs` says where the caller goes:
\* pcs.raised / pcs.returned when the future was done, pcs.resume otherwise.
AwaitTarget(a, pcs) ==
    IF fut[a] = "exception" THEN pcs.raised
    ELSE IF fut[a] = "result" THEN pcs.returned
    ELSE pcs.resume

\* (variant) the body task is created by every await that finds the
\* future pending
AwaitCallCreatesAgain(a, task, q) ==
    IF fut[a] # "pending"
    THEN /\ UNCHANGED <<status, bpc, taskCbs>>
         /\ running' = task
         /\ ready' = q
    ELSE /\ status' = [status EXCEPT ![a] = "RUNNING"]
         /\ bpc' = [bpc EXCEPT ![a] = "sched"]
         /\ ready' = Append(q, StepHandle(BodyTask(a)))
         /\ taskCbs' = [taskCbs EXCEPT ![BodyTask(a)] = Append(@, task)]
         /\ running' = Idle

AwaitCall(a, task, q) ==
    IF fut[a] # "pending"
    THEN /\ UNCHANGED <<status, bpc, taskCbs>>
         /\ running' = task
         /\ ready' = q
    ELSE /\ status' = IF bpc[a] = "none" THEN [status EXCEPT ![a] = "RUNNING"] ELSE status
         /\ bpc' = IF bpc[a] = "none" THEN [bpc EXCEPT ![a] = "sched"] ELSE bpc
         /\ ready' = IF bpc[a] = "none" THEN Append(q, StepHandle(BodyTask(a))) ELSE q
         /\ IF bpc[a] \in BodyResults
            THEN /\ taskCbs' = taskCbs
                 /\ running' = task
            ELSE /\ taskCbs' = [taskCbs EXCEPT ![BodyTask(a)] = Append(@, task)]
                 /\ running' = Idle

\* The part of _await after `await self._running_task`: what the body's
\* result does to the status and the future, and whether _await raises
\* (variant) only an ActionRunError is passed on to the awaiter
AwaitRaisesRunError(a) == bpc[a] = "runerr"

AwaitRaises(a) == bpc[a] \in {"runerr", "exc", "cancelled"}

AwaitReturn(a, q) ==
    /\ status' = IF bpc[a] = "ok" THEN [status EXCEPT ![a] = "SUCCESS"]
                 ELSE IF bpc[a] = "exc" /\ fut[a] = "pending"
                      THEN [status EXCEPT ![a] = FailStatus(a)]
                      ELSE status
    /\ fut' = IF fut[a] # "pending" \/ bpc[a] \in {"runerr", "cancelled"} THEN fut
              ELSE [fut EXCEPT ![a] = IF bpc[a] = "exc" THEN "exception" ELSE "result"]
    /\ futCbs' = IF fut[a] # "pending" \/ bpc[a] \in {"runerr", "cancelled"} THEN futCbs
                 ELSE [futCbs EXCEPT ![a] = <<>>]
    /\ ready' = IF fut[a] # "pending" \/ bpc[a] \in {"runerr", "cancelled"} THEN q
                ELSE q \o futCbs[a]

\* ------------------------------------------------------------- user code
\* A user task awaits the action MaxAwaits times, one await after the
\* other, keeping how each ended.

\* how an `await action` ended, by where ActionBase._await left
AwaitResult(raised) == IF raised THEN "raised" ELSE "returned"

\* user code creates the task of u while the loop is between two handles
UserSpawn(u) ==
    /\ upc[u] = "none"
    /\ running = Idle
    /\ \E v \in Users : upc[v] # "none"
    /\ upc' = [upc EXCEPT ![u] = "call"]
    /\ ready' = Append(ready, StepHandle(UserTask(u)))
    /\ UNCHANGED <<configVars, eventVars, ures, actionVars, bodyVars, rpc, dpc, outcomes,
                   execution_failed, strategyVars, mainVars, running, futCbs, taskCbs,
                   waiting, historyVars>>

\* `await action`: ActionBase._await up to `await self._running_task`
UserAwait(u, a) ==
    /\ upc[u] = "call"
    /\ Runs(UserTask(u))
    /\ Len(ures[u]) < MaxAwaits
    /\ AwaitCall(a, UserTask(u), Q)
    /\ upc' = [upc EXCEPT ![u] =
                 AwaitTarget(a, [raised |-> "call", returned |-> "call", resume |-> "resume"])]
    /\ ures' = IF fut[a] = "pending" THEN ures
               ELSE [ures EXCEPT ![u] = Append(@, AwaitResult(fut[a] = "exception"))]
    /\ UNCHANGED <<configVars, eventVars, fut, yielded, bmode, suspends, faults, rpc, dpc,
                   outcomes, execution_failed, strategyVars, mainVars, futCbs, waiting,
                   historyVars>>

\* the body task is over: the rest of ActionBase._await
UserResume(u, a) ==
    /\ upc[u] = "resume"
    /\ Runs(UserTask(u))
    /\ bpc[a] \in BodyResults
    /\ AwaitReturn(a, Q)
    /\ upc' = [upc EXCEPT ![u] = "call"]
    /\ ures' = [ures EXCEPT ![u] = Append(@, AwaitResult(AwaitRaises(a)))]
    /\ running' = UserTask(u)
    /\ UNCHANGED <<configVars, eventVars, yielded, bodyVars, rpc, dpc, outcomes,
                   execution_failed, strategyVars, mainVars, taskCbs, waiting, historyVars>>

\* the user task returns after its last await
UserEnd(u) ==
    /\ upc[u] = "call"
    /\ Runs(UserTask(u))
    /\ Len(ures[u]) = MaxAwaits
    /\ upc' = [upc EXCEPT ![u] = "done"]
    /\ ready' = Q
    /\ running' = Idle
    /\ UNCHANGED <<configVars, eventVars, ures, actionVars, bodyVars, rpc, dpc, outcomes,
                   execution_failed, strategyVars, mainVars, futCbs, taskCbs, waiting,
                   historyVars>>

\* --------------------------------------------------- Runner._run_action
RunnerRuns(a, pcs) ==
    /\ rpc[a] \in pcs
    /\ Runs(RunnerTask(a))

\* how a runner task that ended with an exception is marked
Crashed == {"crashed", "unhandled"}

\* the runner task ends (normally, or with an exception: Crashed)
RunnerEnds(a, r, q) ==
    /\ rpc' = [rpc EXCEPT ![a] = r]
    /\ ready' = q \o WakeAll(RunnerTask(a))
    /\ taskCbs' = [taskCbs EXCEPT ![RunnerTask(a)] = <<>>]
    /\ running' = Idle

\* ActionBase._internal_omit
InternalOmit(a) ==
    /\ status' = [status EXCEPT ![a] = "OMITTED"]
    /\ IF fut[a] = "pending"
       THEN /\ fut' = [fut EXCEPT ![a] = "result"]
            /\ futCbs' = [futCbs EXCEPT ![a] = <<>>]
            /\ invalidState' = invalidState
       ELSE /\ UNCHANGED <<fut, futCbs>>
            /\ invalidState' = TRUE

\* `if not action.enabled`: omit and return
RunnerOmit(a) ==
    /\ RunnerRuns(a, {"sched"})
    /\ ~enabled[a]
    /\ InternalOmit(a)
    /\ RunnerEnds(a, IF fut[a] = "pending" THEN "done" ELSE "crashed", Q \o FutHandles(a))
    /\ UNCHANGED <<configVars, eventVars, userVars, yielded, bodyVars, dpc, outcomes, execution_failed,
                   strategyVars, mainVars, waiting, emittedSet, reEmitted, stratSkipped,
                   errReported>>

\* _render_action raises (a template error or a schema mismatch): the
\* error goes to display.emit_action_error, outside any try; if that call
\* raises, the task ends there with the display's exception ("unhandled")
RunnerRenderFail(a) ==
    /\ RunnerRuns(a, {"sched"})
    /\ enabled[a]
    /\ Fault
    /\ errReported' = errReported \cup {a}
    /\ IF badDisplay
       THEN /\ UNCHANGED <<status, fut, futCbs, execution_failed>>
            /\ RunnerEnds(a, "unhandled", Q)
       ELSE /\ InternalFail(a)
            /\ execution_failed' = TRUE
            /\ RunnerEnds(a, "done", Q \o FutHandles(a))
    /\ UNCHANGED <<configVars, eventVars, userVars, yielded, bpc, bmode, suspends, dpc, outcomes, strategyVars,
                   mainVars, waiting, emittedSet, reEmitted, stratSkipped, invalidState>>

\* _render_action succeeds: on_action_start, the drainer task is created,
\* and the action is awaited
RunnerStart(a) ==
    /\ RunnerRuns(a, {"sched"})
    /\ enabled[a]
    /\ dpc' = [dpc EXCEPT ![a] = "sched"]
    /\ AwaitCall(a, RunnerTask(a), Append(Q, StepHandle(DrainerTask(a))))
    /\ rpc' = [rpc EXCEPT ![a] =
                 AwaitTarget(a, [raised |-> "raised", returned |-> "returned", resume |-> "resume"])]
    /\ UNCHANGED <<configVars, eventVars, userVars, fut, yielded, bmode, suspends, faults, outcomes,
                   execution_failed, strategyVars, mainVars, futCbs, waiting, historyVars>>

\* the body task is over: the rest of ActionBase._await
RunnerResume(a) ==
    /\ RunnerRuns(a, {"resume"})
    /\ bpc[a] \in BodyResults
    /\ AwaitReturn(a, Q)
    /\ rpc' = [rpc EXCEPT ![a] = IF AwaitRaises(a) THEN "raised" ELSE "returned"]
    /\ running' = RunnerTask(a)
    /\ UNCHANGED <<configVars, eventVars, userVars, yielded, bodyVars, dpc, outcomes, execution_failed,
                   strategyVars, mainVars, taskCbs, waiting, historyVars>>

\* the except and finally clauses around `await action`, up to the await
\* of the drainer task
RunnerAfterAwait(a) ==
    /\ RunnerRuns(a, {"raised", "returned"})
    /\ errReported' = IF rpc[a] = "raised" THEN errReported \cup {a} ELSE errReported
    /\ execution_failed' = (execution_failed \/ (rpc[a] = "raised" /\ status[a] # "WARNING"))
    /\ outcomes' = [outcomes EXCEPT ![a] = @ \cup yielded[a]]
    /\ rpc' = [rpc EXCEPT ![a] = "finish"]
    /\ ready' = Q
    /\ IF dpc[a] = "done"
       THEN /\ taskCbs' = taskCbs
            /\ running' = RunnerTask(a)
       ELSE /\ taskCbs' = [taskCbs EXCEPT ![DrainerTask(a)] = Append(@, RunnerTask(a))]
            /\ running' = Idle
    /\ UNCHANGED <<configVars, eventVars, userVars, actionVars, bodyVars, dpc, strategyVars, mainVars,
                   futCbs, waiting, emittedSet, reEmitted, stratSkipped, invalidState>>

\* on_action_finish, and the task is over
RunnerFinish(a) ==
    /\ RunnerRuns(a, {"finish"})
    /\ RunnerEnds(a, "done", Q)
    /\ UNCHANGED <<configVars, eventVars, userVars, actionVars, bodyVars, dpc, outcomes, execution_failed,
                   strategyVars, mainVars, futCbs, waiting, historyVars>>

\* ------------------------- Runner._dispatch_action_events_to_display
\* (variant of the head of `while True`) the reader waits for the
\* queue_getter task alone
ReaderWaitGetterOnly(a, q) ==
    /\ gpc' = [gpc EXCEPT ![a] = "sched"]
    /\ futCbs' = futCbs
    /\ ready' = Append(q, StepHandle(GetterTask(a)))
    /\ waiting' = waiting \cup {DrainerTask(a)}
    /\ running' = Idle

\* ActionBase.read_events, the head of `while True`: the queue_getter task
\* is created, then asyncio.wait on the completion future and on that task,
\* with the loop's queue being q
ReaderWait(a, q) ==
    /\ gpc' = [gpc EXCEPT ![a] = "sched"]
    /\ IF fut[a] = "pending"
       THEN /\ futCbs' = [futCbs EXCEPT ![a] =
                            Append(DropWait(@, DrainerTask(a)), WaitHandle(DrainerTask(a)))]
            /\ ready' = Append(q, StepHandle(GetterTask(a)))
       ELSE /\ futCbs' = futCbs
            /\ ready' = q \o <<StepHandle(GetterTask(a)), WaitHandle(DrainerTask(a))>>
    /\ waiting' = waiting \cup {DrainerTask(a)}
    /\ running' = Idle

\* the first step of the drainer task
DrainerStart(a) ==
    /\ dpc[a] = "sched"
    /\ Runs(DrainerTask(a))
    /\ ReaderWait(a, Q)
    /\ dpc' = [dpc EXCEPT ![a] = "wait"]
    /\ UNCHANGED <<configVars, queue, emitVars, readVars, userVars, actionVars, bodyVars, rpc,
                   outcomes, execution_failed, strategyVars, mainVars, taskCbs, historyVars>>

\* queue_getter.done()
Got(a) == gpc[a] = "done"

\* the wait is over with a message got and the action not done: the message
\* is yielded (display.emit_action_message) and the loop goes round
DrainerNext(a) ==
    /\ dpc[a] = "wait"
    /\ Runs(DrainerTask(a))
    /\ Got(a)
    /\ ~badDisplay
    /\ ~Done(a)
    /\ forwarded' = [forwarded EXCEPT ![a] = Append(@, gres[a])]
    /\ ReaderWait(a, DropWait(Q, DrainerTask(a)))
    /\ UNCHANGED <<configVars, queue, gres, emitVars, userVars, actionVars, bodyVars, rpc, dpc,
                   outcomes, execution_failed, strategyVars, mainVars, taskCbs, historyVars>>

\* (variant) the generator returns without draining the queue
YieldsNoDrain(a) == IF Got(a) THEN <<gres[a]>> ELSE <<>>

\* the messages the generator yields before it ends: the one got, and if
\* the action is done those left in the queue; a display that raises on
\* the first of them ends the drainer there
Yields(a) ==
    LET all == (IF Got(a) THEN <<gres[a]>> ELSE <<>>) \o (IF Done(a) THEN queue[a] ELSE <<>>)
    IN  IF badDisplay /\ all # <<>> THEN <<Head(all)>> ELSE all

\* the wait is over and the generator ends: the action is done, so the
\* getter is cancelled and the queue drained, or emit_action_message raised
DrainerFinish(a) ==
    /\ dpc[a] = "wait"
    /\ Runs(DrainerTask(a))
    /\ Done(a) \/ (Got(a) /\ badDisplay)
    /\ forwarded' = [forwarded EXCEPT ![a] = @ \o Yields(a)]
    /\ queue' = [queue EXCEPT ![a] =
                   SubSeq(@, Len(Yields(a)) - (IF Got(a) THEN 1 ELSE 0) + 1, Len(@))]
    /\ gpc' = [gpc EXCEPT ![a] = IF Got(a) THEN @ ELSE "cancelled"]
    /\ dpc' = [dpc EXCEPT ![a] = "done"]
    /\ futCbs' = [futCbs EXCEPT ![a] = DropWait(@, DrainerTask(a))]
    /\ ready' = Without(DropWait(Q, DrainerTask(a)), StepHandle(GetterTask(a)))
                   \o WakeAll(DrainerTask(a))
    /\ taskCbs' = [taskCbs EXCEPT ![DrainerTask(a)] = <<>>]
    /\ running' = Idle
    /\ UNCHANGED <<configVars, gres, emitVars, userVars, actionVars, bodyVars, rpc, outcomes,
                   execution_failed, strategyVars, mainVars, waiting, historyVars>>

\* a step of the queue_getter task (asyncio.Queue.get): a message is taken
\* from the queue and the task is over, or the task waits for a put
GetterStep(a) ==
    /\ gpc[a] \in {"sched", "woken"}
    /\ Runs(GetterTask(a))
    /\ IF queue[a] # <<>>
       THEN /\ gres' = [gres EXCEPT ![a] = Head(queue[a])]
            /\ queue' = [queue EXCEPT ![a] = Tail(@)]
            /\ gpc' = [gpc EXCEPT ![a] = "done"]
            /\ ready' = Append(Q, WaitHandle(DrainerTask(a)))
       ELSE /\ gpc' = [gpc EXCEPT ![a] = "wait"]
            /\ ready' = Q
            /\ UNCHANGED <<gres, queue>>
    /\ running' = Idle
    /\ UNCHANGED <<configVars, emitVars, forwarded, userVars, actionVars, bodyVars, rpc, dpc,
                   outcomes, execution_failed, strategyVars, mainVars, futCbs, taskCbs,
                   waiting, historyVars>>

\* ------------------------------------------------------------ strategies
MainAt(pc) ==
    /\ mpc = pc
    /\ Runs(Main)

\* __anext__ returns x to the async for of Runner._run_all_actions, whose
\* body starts with the finalizing loop over list(action_runners.items())
Emit(x) ==
    /\ emitted' = x
    /\ emittedSet' = emittedSet \cup {x}
    /\ reEmitted' = IF x \in emittedSet THEN reEmitted \cup {x} ELSE reEmitted
    /\ finList' = actionRunners
    /\ mpc' = "finalize"

\* BaseStrategy._skip_action: ActionSkip is swallowed, InvalidStateError is
\* not and ends the main task
StrategySkip(x, pc) ==
    /\ InternalSkip(x)
    /\ stratSkipped' = stratSkipped \cup {x}
    /\ ready' = Q \o FutHandles(x)
    /\ mpc' = IF fut[x] = "pending" THEN pc ELSE "crashed"
    /\ running' = IF fut[x] = "pending" THEN Main ELSE Idle

\* FreeStrategy.__anext__, also reached through super().__anext__() by
\* SequentialStrategy.__anext__, which keeps the result as _current
FreeAnext ==
    /\ \/ MainAt("anext") /\ strategy = "free"
       \/ MainAt("super") /\ IsSequential(strategy)
    /\ IF unprocessed = <<>>
       THEN /\ mpc' = "stop"
            /\ UNCHANGED <<unprocessed, current, emitted, finList, emittedSet, reEmitted>>
       ELSE /\ Emit(Head(unprocessed))
            /\ unprocessed' = Tail(unprocessed)
            /\ current' = IF IsSequential(strategy) THEN Head(unprocessed) ELSE current
    /\ ready' = Q
    /\ running' = Main
    /\ UNCHANGED <<configVars, eventVars, userVars, actionVars, bodyVars, rpc, dpc, outcomes, execution_failed,
                   active, blockers, blockerKeys, nextAction, actionRunners, futCbs,
                   taskCbs, waiting, stratSkipped, errReported, invalidState>>

\* SequentialStrategy.__anext__: `await self._current`
SeqAnext ==
    /\ MainAt("anext")
    /\ IsSequential(strategy)
    /\ IF current = None
       THEN /\ mpc' = "super"
            /\ ready' = Q
            /\ running' = Main
            /\ UNCHANGED <<status, bpc, taskCbs>>
       ELSE /\ AwaitCall(current, Main, Q)
            /\ mpc' = AwaitTarget(current,
                        [raised |-> IF STRICT(strategy) THEN "drain" ELSE "super",
                         returned |-> "super", resume |-> "resume"])
    /\ UNCHANGED <<configVars, eventVars, userVars, fut, yielded, bmode, suspends, faults, rpc, dpc, outcomes,
                   execution_failed, strategyVars, emitted, actionRunners, finList, futCbs,
                   waiting, historyVars>>

\* the body task of _current is over: the rest of ActionBase._await, then
\* `except Exception: if self.STRICT`
SeqResume ==
    /\ MainAt("resume")
    /\ bpc[current] \in BodyResults
    /\ AwaitReturn(current, Q)
    /\ mpc' = IF AwaitRaises(current) /\ STRICT(strategy) THEN "drain" ELSE "super"
    /\ running' = Main
    /\ UNCHANGED <<configVars, eventVars, userVars, yielded, bodyVars, rpc, dpc, outcomes, execution_failed,
                   strategyVars, emitted, actionRunners, finList, taskCbs, waiting,
                   historyVars>>

\* `while True: next_action = await super().__anext__(); self._skip_action(next_action)`
SeqDrain ==
    /\ MainAt("drain")
    /\ IF unprocessed = <<>>
       THEN /\ mpc' = "stop"
            /\ ready' = Q
            /\ running' = Main
            /\ UNCHANGED <<status, fut, futCbs, unprocessed, stratSkipped, invalidState>>
       ELSE /\ StrategySkip(Head(unprocessed), "drain")
            /\ unprocessed' = Tail(unprocessed)
    /\ UNCHANGED <<configVars, eventVars, userVars, yielded, bodyVars, rpc, dpc, outcomes, execution_failed,
                   current, active, blockers, blockerKeys, nextAction, emitted,
                   actionRunners, finList, taskCbs, waiting, emittedSet, reEmitted,
                   errReported>>

\* LooseStrategy._get_maybe_next_action, called with active map `act`: the
\* entries of _action_blockers are scanned in insertion order, each loses
\* the done names, and the first one left empty is popped and returned
\* (variant) every action that has left PENDING is taken for done
StartedNames == {a \in Actions : status[a] # "PENDING"}

DoneNames == {a \in Actions : Done(a)}

\* (variant) an emitted ancestor no longer blocks, done or not
ReadyKeysActive == {n \in blockerKeys : blockers[n] \ (DoneNames \cup active) = {}}

ReadyKeys == {n \in blockerKeys : blockers[n] \ DoneNames = {}}

MaybeNext ==
    IF ReadyKeys = {} THEN None
    ELSE CHOOSE n \in ReadyKeys : \A m \in ReadyKeys : Index(n) <= Index(m)

Scanned(n) == n \in blockerKeys /\ (MaybeNext = None \/ Index(n) <= Index(MaybeNext))

\* (variant) the returned action is not popped from _action_blockers
GetMaybeNextActionKeep(act) ==
    /\ blockers' = [n \in Actions |-> IF Scanned(n) THEN blockers[n] \ DoneNames ELSE blockers[n]]
    /\ blockerKeys' = blockerKeys
    /\ active' = IF MaybeNext = None THEN act ELSE act \cup {MaybeNext}
    /\ nextAction' = MaybeNext
    /\ mpc' = IF MaybeNext = None THEN "wait" ELSE "check"

GetMaybeNextAction(act) ==
    /\ blockers' = [n \in Actions |-> IF Scanned(n) THEN blockers[n] \ DoneNames ELSE blockers[n]]
    /\ blockerKeys' = blockerKeys \ {MaybeNext}
    /\ active' = IF MaybeNext = None THEN act ELSE act \cup {MaybeNext}
    /\ nextAction' = MaybeNext
    /\ mpc' = IF MaybeNext = None THEN "wait" ELSE "check"

\* LooseStrategy._next_action: `if maybe_next_action := self._get_maybe_next_action()`
LooseNextAction ==
    /\ MainAt("anext")
    /\ IsLoose(strategy)
    /\ GetMaybeNextAction(active)
    /\ ready' = Q
    /\ running' = Main
    /\ UNCHANGED <<configVars, eventVars, userVars, actionVars, bodyVars, rpc, dpc, outcomes, execution_failed,
                   unprocessed, current, emitted, actionRunners, finList, futCbs, taskCbs,
                   waiting, historyVars>>

\* the done futures among those handed to asyncio.wait call back at once
DoneActive == {a \in active : fut[a] # "pending"}

\* LooseStrategy._next_action: nothing active ends the iteration, else
\* asyncio.wait(FIRST_COMPLETED) on the futures of the active actions
LooseWait ==
    /\ MainAt("wait")
    /\ IF active = {}
       THEN /\ mpc' = "stop"
            /\ ready' = Q
            /\ running' = Main
            /\ UNCHANGED <<futCbs, waiting>>
       ELSE /\ mpc' = "woken"
            /\ futCbs' = [a \in Actions |->
                            IF a \in active /\ fut[a] = "pending"
                            THEN Append(futCbs[a], WaitHandle(Main)) ELSE futCbs[a]]
            /\ ready' = Q \o [i \in 1..Cardinality(DoneActive) |-> WaitHandle(Main)]
            /\ waiting' = waiting \cup {Main}
            /\ running' = Idle
    /\ UNCHANGED <<configVars, eventVars, userVars, actionVars, bodyVars, rpc, dpc, outcomes, execution_failed,
                   strategyVars, emitted, actionRunners, finList, taskCbs, historyVars>>

\* (variant) a completion that releases no action ends the iteration
LooseWokenStops ==
    /\ MainAt("woken")
    /\ futCbs' = [a \in Actions |-> DropWait(futCbs[a], Main)]
    /\ ready' = DropWait(Q, Main)
    /\ blockers' = [n \in Actions |-> IF Scanned(n) THEN blockers[n] \ DoneNames ELSE blockers[n]]
    /\ blockerKeys' = blockerKeys \ {MaybeNext}
    /\ active' = IF MaybeNext = None THEN active \ DoneNames
                                     ELSE (active \ DoneNames) \cup {MaybeNext}
    /\ nextAction' = MaybeNext
    /\ mpc' = IF MaybeNext = None THEN "stop" ELSE "check"
    /\ running' = Main
    /\ UNCHANGED <<configVars, eventVars, userVars, actionVars, bodyVars, rpc, dpc, outcomes,
                   execution_failed, unprocessed, current, emitted, actionRunners, finList,
                   taskCbs, waiting, historyVars>>

\* asyncio.wait has returned: the done actions leave the active map, then
\* `if maybe_next_action := self._get_maybe_next_action()`
LooseWoken ==
    /\ MainAt("woken")
    /\ futCbs' = [a \in Actions |-> DropWait(futCbs[a], Main)]
    /\ ready' = DropWait(Q, Main)
    /\ GetMaybeNextAction(active \ DoneNames)
    /\ running' = Main
    /\ UNCHANGED <<configVars, eventVars, userVars, actionVars, bodyVars, rpc, dpc, outcomes, execution_failed,
                   unprocessed, current, emitted, actionRunners, finList, taskCbs,
                   waiting, historyVars>>

\* (variant) an OMITTED ancestor counts as a failure too
StrictFailureOrOmitted(x) ==
    \E m \in AncestorsOf(ancestors, x) :
        /\ status[m] \in {"FAILURE", "SKIPPED", "WARNING", "OMITTED"}
        /\ (ancestors[x][m] = "strict" \/ STRICT(strategy))

\* (variant) every dependency is taken for strict
StrictFailureAnyDependency(x) ==
    \E m \in AncestorsOf(ancestors, x) : status[m] \in {"FAILURE", "SKIPPED", "WARNING"}

\* LooseStrategy.__anext__: an ancestor that failed, warned or was skipped
\* through a strict dependency (or under STRICT)
StrictFailure(x) ==
    \E m \in AncestorsOf(ancestors, x) :
        /\ status[m] \in {"FAILURE", "SKIPPED", "WARNING"}
        /\ (ancestors[x][m] = "strict" \/ STRICT(strategy))

\* LooseStrategy.__anext__: skip next_action and look again, or return it
LooseCheck ==
    /\ MainAt("check")
    /\ IF StrictFailure(nextAction)
       THEN /\ StrategySkip(nextAction, "anext")
            /\ active' = active \ {nextAction}
            /\ UNCHANGED <<emitted, finList, emittedSet, reEmitted>>
       ELSE /\ Emit(nextAction)
            /\ ready' = Q
            /\ running' = Main
            /\ UNCHANGED <<status, fut, futCbs, active, stratSkipped, invalidState>>
    /\ UNCHANGED <<configVars, eventVars, userVars, yielded, bodyVars, rpc, dpc, outcomes, execution_failed,
                   unprocessed, current, blockers, blockerKeys, nextAction, actionRunners,
                   taskCbs, waiting, errReported>>

\* --------------------------------------------- Runner._run_all_actions

\* `await task` by the main task: a finished task answers at once (a task
\* that ended with an exception re-raises it), else the main task waits
AwaitRunner(y, pcDone, pcWait) ==
    IF rpc[y] = "done"
    THEN /\ mpc' = pcDone
         /\ running' = Main
         /\ taskCbs' = taskCbs
    ELSE IF rpc[y] \in Crashed
    THEN /\ mpc' = "crashed"
         /\ running' = Idle
         /\ taskCbs' = taskCbs
    ELSE /\ mpc' = pcWait
         /\ running' = Idle
         /\ taskCbs' = [taskCbs EXCEPT ![RunnerTask(y)] = Append(@, Main)]

\* (variant) the body of the async for without its finalizing loop: the
\* runner task of the emitted action is created at once
FinalizeNoAwait ==
    /\ MainAt("finalize")
    /\ rpc' = [rpc EXCEPT ![emitted] = "sched"]
    /\ ready' = Append(Q, StepHandle(RunnerTask(emitted)))
    /\ actionRunners' = Append(Without(actionRunners, emitted), emitted)
    /\ mpc' = "anext"
    /\ running' = Main
    /\ UNCHANGED <<configVars, eventVars, userVars, actionVars, bodyVars, dpc, outcomes, execution_failed,
                   strategyVars, emitted, finList, taskCbs, futCbs, waiting, historyVars>>

\* the body of the async for: each action of list(action_runners.items())
\* that is done has its runner task awaited and is popped; then the runner
\* task of the emitted action is created
Finalize ==
    /\ MainAt("finalize")
    /\ IF finList = <<>>
       THEN /\ rpc' = [rpc EXCEPT ![emitted] = "sched"]
            /\ ready' = Append(Q, StepHandle(RunnerTask(emitted)))
            /\ actionRunners' = Append(Without(actionRunners, emitted), emitted)
            /\ mpc' = "anext"
            /\ running' = Main
            /\ UNCHANGED <<finList, taskCbs>>
       ELSE /\ ready' = Q
            /\ rpc' = rpc
            /\ IF ~Done(Head(finList))
               THEN /\ finList' = Tail(finList)
                    /\ running' = Main
                    /\ UNCHANGED <<actionRunners, mpc, taskCbs>>
               ELSE /\ AwaitRunner(Head(finList), "finalize", "fin_resume")
                    /\ finList' = IF rpc[Head(finList)] = "done" THEN Tail(finList) ELSE finList
                    /\ actionRunners' = IF rpc[Head(finList)] = "done"
                                        THEN Without(actionRunners, Head(finList))
                                        ELSE actionRunners
    /\ UNCHANGED <<configVars, eventVars, userVars, actionVars, bodyVars, dpc, outcomes, execution_failed,
                   strategyVars, emitted, futCbs, waiting, historyVars>>

\* `await corresponding_runner_task` is over: the action is popped
FinResume ==
    /\ MainAt("fin_resume")
    /\ IF rpc[Head(finList)] \in Crashed
       THEN /\ mpc' = "crashed"
            /\ running' = Idle
            /\ UNCHANGED <<actionRunners, finList>>
       ELSE /\ mpc' = "finalize"
            /\ actionRunners' = Without(actionRunners, Head(finList))
            /\ finList' = Tail(finList)
            /\ running' = Main
    /\ ready' = Q
    /\ UNCHANGED <<configVars, eventVars, userVars, actionVars, bodyVars, rpc, dpc, outcomes, execution_failed,
                   strategyVars, emitted, futCbs, taskCbs, waiting, historyVars>>

\* StopAsyncIteration ends the async for
StopIteration ==
    /\ MainAt("stop")
    /\ finList' = actionRunners
    /\ mpc' = "join"
    /\ ready' = Q
    /\ running' = Main
    /\ UNCHANGED <<configVars, eventVars, userVars, actionVars, bodyVars, rpc, dpc, outcomes, execution_failed,
                   strategyVars, emitted, actionRunners, futCbs, taskCbs, waiting,
                   historyVars>>

\* `for task in action_runners.values(): await task`, then the main task returns
Join ==
    /\ MainAt("join")
    /\ IF finList = <<>>
       THEN /\ mpc' = "done"
            /\ running' = Idle
            /\ UNCHANGED <<finList, taskCbs>>
       ELSE /\ AwaitRunner(Head(finList), "join", "join_resume")
            /\ finList' = IF rpc[Head(finList)] = "done" THEN Tail(finList) ELSE finList
    /\ ready' = Q
    /\ UNCHANGED <<configVars, eventVars, userVars, actionVars, bodyVars, rpc, dpc, outcomes, execution_failed,
                   strategyVars, emitted, actionRunners, futCbs, waiting, historyVars>>

\* `await task` is over
JoinResume ==
    /\ MainAt("join_resume")
    /\ IF rpc[Head(finList)] \in Crashed
       THEN /\ mpc' = "crashed"
            /\ running' = Idle
            /\ UNCHANGED finList
       ELSE /\ mpc' = "join"
            /\ finList' = Tail(finList)
            /\ running' = Main
    /\ ready' = Q
    /\ UNCHANGED <<configVars, eventVars, userVars, actionVars, bodyVars, rpc, dpc, outcomes, execution_failed,
                   strategyVars, emitted, actionRunners, futCbs, taskCbs, waiting,
                   historyVars>>

\* ------------------------------------------------------- specification
\* the main task takes its next step under the strategy of the run
SequentialStep ==
    \/ FreeAnext
    \/ SeqAnext
    \/ SeqResume
    \/ SeqDrain

LooseStep ==
    \/ LooseNextAction
    \/ LooseWait
    \/ LooseWoken
    \/ LooseCheck

RunAllStep ==
    \/ Finalize
    \/ FinResume
    \/ StopIteration
    \/ Join
    \/ JoinResume

\* the body task of a takes its next step
BodyStep(a) ==
    /\ BodyRuns(a)
    /\ \/ BodySuspend(a)
       \/ BodyReturn(a)
       \/ BodySkip(a)
       \/ BodySubSkip(a)
       \/ BodyReraise(a)
       \/ BodyFail(a)
       \/ BodyRaiseRunError(a)
       \/ BodyRaise(a)

\* the runner task of a takes its next step
RunnerStep(a) ==
    /\ Runs(RunnerTask(a))
    /\ \/ RunnerOmit(a)
       \/ RunnerRenderFail(a)
       \/ RunnerStart(a)
       \/ RunnerResume(a)
       \/ RunnerAfterAwait(a)
       \/ RunnerFinish(a)

\* the drainer task of a takes its next step
DrainerStep(a) ==
    /\ Runs(DrainerTask(a))
    /\ \/ DrainerStart(a)
       \/ DrainerNext(a)
       \/ DrainerFinish(a)

\* what the event loop does next, whatever the strategy
LoopStep ==
    \/ OnCompletion
    \/ Runs(Main) /\ RunAllStep
    \/ \E a \in Actions : IOComplete(a)
    \/ \E a \in Actions : BodyStep(a)
    \/ \E a \in Actions : RunnerStep(a)
    \/ \E a \in Actions : DrainerStep(a)
    \/ \E a \in Actions : GetterStep(a)

Next ==
    \/ LoopStep
    \/ Runs(Main) /\ SequentialStep
    \/ Runs(Main) /\ LooseStep

Spec == Init /\ [][Next]_vars

\* the steps of a run under loose or strict
NextLoose ==
    \/ LoopStep
    \/ Runs(Main) /\ LooseStep

SpecJoin == InitJoin /\ [][NextLoose]_vars

\* the loop runs the next handle of its queue, under loose or strict
HandleLoose ==
    \/ OnCompletion
    \/ Runs(Main) /\ RunAllStep
    \/ Runs(Main) /\ LooseStep
    \/ \E a \in Actions : BodyStep(a)
    \/ \E a \in Actions : RunnerStep(a)
    \/ \E a \in Actions : DrainerStep(a)
    \/ \E a \in Actions : GetterStep(a)

\* the runs under loose or strict in which the loop never leaves a queued
\* handle unrun; nothing is assumed of the I/O bodies wait for
SpecLoose == InitLoose /\ [][NextLoose]_vars /\ WF_vars(HandleLoose)

SpecEvents == InitEvents /\ [][Next]_vars

\* Workflow() is called, then its tiers are iterated
NextWorkflow ==
    \/ EstablishDescendants
    \/ AllocateTiersCall
    \/ IterActionsByTier

SpecWorkflow == InitWorkflow /\ [][NextWorkflow]_vars

\* a user task takes its next step
UserStep(u) ==
    \/ \E a \in Actions : UserAwait(u, a)
    \/ \E a \in Actions : UserResume(u, a)
    \/ UserEnd(u)

\* the loop runs the next handle of its queue, with no Runner
HandleAction ==
    \/ OnCompletion
    \/ \E a \in Actions : BodyStep(a)
    \/ \E a \in Actions : DrainerStep(a)
    \/ \E a \in Actions : GetterStep(a)
    \/ \E u \in Users : UserStep(u)

NextAction ==
    \/ HandleAction
    \/ \E a \in Actions : IOComplete(a)
    \/ \E u \in Users : UserSpawn(u)

\* the loop never leaves a queued handle unrun; nothing is assumed of the
\* I/O bodies wait for nor of the user code that creates tasks
SpecAction == InitAction /\ [][NextAction]_vars /\ WF_vars(HandleAction)

\* one action awaited by a user task, while other code calls
\* BaseStrategy._skip_action and ActionBase.disable on it, or cancels its
\* body task
NextCalls ==
    \/ HandleAction
    \/ \E a \in Actions : IOComplete(a)
    \/ \E a \in Actions : SkipActionCall(a)
    \/ \E a \in Actions : DisableCall(a)
    \/ \E a \in Actions : BodyDisable(a)
    \/ \E a \in Actions : Cancel(a)
    \/ \E a \in Actions : BodyCancelled(a)

SpecCalls == InitAction /\ [][NextCalls]_vars

\* one emission-scanner action awaited by user tasks and read by a reader,
\* whose body is given stdout lines that end with a service marker
NextScan ==
    \/ HandleAction
    \/ \E a \in Actions : IOComplete(a)
    \/ \E a \in Actions : ScannerEmit(a)

SpecScan == InitAction /\ [][NextScan]_vars

\* ================================================================ claims
\* __anext__ has just returned `emitted`: the main task is in the body of
\* the async for, before the runner task of `emitted` is created
Emitting == mpc \in {"finalize", "fin_resume"}

\* the ancestors of n other than n itself
ProperAncestors(n) == AncestorsOf(ancestors, n) \ {n}

\* ------------------------------------------------------------------- C1
\* C1: under loose and strict, when __anext__ returns an action, every
\* name in its ancestors is done(); it stays so while the returned action
\* is handed to its runner task.
C1_AncestorsDoneAtEmission ==
    (IsLoose(strategy) /\ Emitting) => \A m \in AncestorsOf(ancestors, emitted) : Done(m)

\* an action with two ancestors is returned, in a run where a body awaited
\* I/O (so the two did not finish in the same turn of the loop)
C1_Witness ==
    /\ IsLoose(strategy)
    /\ mpc = "finalize"
    /\ Cardinality(ProperAncestors(emitted)) = 2
    /\ suspends > 0

\* ------------------------------------------------------------------- C2
\* the run is over: Runner._run_all_actions has returned
RunOver == mpc = "done"

\* C2: under loose (strict), an action with an ancestor that ended FAILURE,
\* WARNING or SKIPPED through a strict (any) dependency is never emitted,
\* never RUNNING, and is SKIPPED when the run is over.
C2_StrictFailureSkips ==
    (IsLoose(strategy) /\ RunOver) =>
        \A n \in Actions :
            StrictFailure(n) => status[n] = "SKIPPED" /\ n \notin emittedSet /\ bpc[n] = "none"

\* ------------------------------------------------------------------- C3
\* the runner task of d exists and has not rendered d yet
BeforeRender(d) == rpc[d] = "sched"

\* C3: under loose and strict, from the creation of d's runner task up to
\* the rendering of d, the outcomes map holds, for each ancestor of d,
\* every key that ancestor has yielded.
C3_OutcomesBeforeRender ==
    IsLoose(strategy) =>
        \A d \in Actions : BeforeRender(d) =>
            \A a \in AncestorsOf(ancestors, d) : yielded[a] \subseteq outcomes[a]

\* d is about to be rendered; an ancestor yielded and had skip() called in
\* a sub-task of its body, which resolved the future before the body ended
C3_Witness ==
    /\ IsLoose(strategy)
    /\ \E d \in Actions : /\ BeforeRender(d)
                          /\ enabled[d]
                          /\ \E a \in ProperAncestors(d) : /\ yielded[a] # {}
                                                           /\ bmode[a] = "skipped"
                                                           /\ status[a] = "SKIPPED"

\* ------------------------------------------------------------------- C4
\* the body task of a has been created (ActionBase._await has set RUNNING)
BodyStarted(a) == bpc[a] # "none"

\* C4: a disabled action never has its body started, is never RUNNING,
\* and, once it has been emitted and the run is over, is OMITTED.
C4_DisabledNeverRuns ==
    \A a \in Actions :
        ~enabled[a] =>
            /\ ~BodyStarted(a)
            /\ status[a] # "RUNNING"
            /\ (RunOver /\ a \in emittedSet) => status[a] = "OMITTED"

\* ------------------------------------------------------------------- C5
\* the runner task of a has returned from its `except` around _render_action:
\* a was enabled, and the task is over without an event drainer
RenderFailed(a) == enabled[a] /\ rpc[a] = "done" /\ dpc[a] = "none"

\* C5: when rendering an action of normal severity has failed, the error
\* has gone to emit_action_error, the run is flagged failed, the body was
\* never started, and the action is FAILURE when the run is over.
C5_RenderFailure ==
    \A a \in Actions :
        (RenderFailed(a) /\ severity[a] = "normal") =>
            /\ a \in errReported
            /\ execution_failed
            /\ ~BodyStarted(a)
            /\ RunOver => status[a] = "FAILURE"

\* ------------------------------------------------------------------- C6
\* C6: a terminal status is absorbing: no step changes the status of an
\* action that is SUCCESS, WARNING, FAILURE, SKIPPED or OMITTED.
C6_TerminalAbsorbing ==
    [][\A a \in Actions : status[a] \in TerminalStatuses => status'[a] = status[a]]_vars

\* ------------------------------------------------------------------- C7
\* the edges of the claim, with those of a skip() inside the body
\* (RUNNING to SKIPPED) and of a failed render (PENDING to FAILURE or WARNING)
StatusEdges ==
    {<<"PENDING", "RUNNING">>, <<"RUNNING", "SUCCESS">>, <<"RUNNING", "FAILURE">>,
     <<"RUNNING", "WARNING">>, <<"PENDING", "SKIPPED">>, <<"PENDING", "OMITTED">>,
     <<"RUNNING", "SKIPPED">>, <<"PENDING", "FAILURE">>, <<"PENDING", "WARNING">>}

\* C7: a status changes only along the edges PENDING-RUNNING,
\* RUNNING-SUCCESS/FAILURE/WARNING, PENDING-SKIPPED, PENDING-OMITTED (here
\* with the edges of self-skip and render failure allowed as well), and
\* FAILURE is entered only with severity normal, WARNING only with low.
C7_StatusEdges ==
    [][\A a \in Actions :
          status'[a] # status[a] =>
              /\ <<status[a], status'[a]>> \in StatusEdges
              /\ status'[a] = "FAILURE" => severity[a] = "normal"
              /\ status'[a] = "WARNING" => severity[a] = "low"]_vars

\* ------------------------------------------------------------------- C8
\* C8: under strict-sequential, once an error has been reported for an
\* action, no later action (in insertion order) is ever emitted, and each
\* is SKIPPED when the run is over.
C8_SkipsAfterFailure ==
    strategy = "strict-sequential" =>
        \A a \in errReported : \A b \in Actions :
            Index(a) < Index(b) =>
                /\ b \notin emittedSet
                /\ RunOver => status[b] = "SKIPPED"

\* ------------------------------------------------------------------- C9
\* C9: no action is returned by __anext__ more than once, and no action
\* skipped by the strategy is ever returned by it.
C9_EmittedOnce == reEmitted = {} /\ stratSkipped \cap emittedSet = {}

\* the run is over, an action was emitted and another skipped by the strategy
C9_Witness == RunOver /\ emittedSet # {} /\ stratSkipped # {}

\* ------------------------------------------------------------------ C10
\* C10 as claimed: under every strategy, every ancestor of an emitted
\* action is in a terminal status.
C10_AllStrategies ==
    \A a \in emittedSet : \A m \in AncestorsOf(ancestors, a) : status[m] \in TerminalStatuses

\* C10 amended: under loose and strict, every ancestor of an emitted action
\* is in a terminal status.
C10_LooseStrict == IsLoose(strategy) => C10_AllStrategies

\* under loose or strict an action is emitted whose ancestor ran and failed
C10_Witness ==
    /\ IsLoose(strategy)
    /\ \E a \in emittedSet : \E m \in ProperAncestors(a) :
          BodyStarted(m) /\ status[m] \in {"FAILURE", "WARNING"}

\* ------------------------------------------------------------------ C11
\* C11: when the run is over, it is flagged failed (run_async raises
\* ExecutionFailed) exactly when some action is FAILURE.
C11_ExecutionFailed ==
    RunOver => (execution_failed <=> \E a \in Actions : status[a] = "FAILURE")

\* ------------------------------------------------------------------ C12
\* the body task of a has ended with an exception other than ActionSkip
BodyFailed(a) == bpc[a] \in {"runerr", "exc"}

\* the runner task of a is past the except clause around `await action`
AfterAwait(a) == rpc[a] \in {"finish", "done"} /\ dpc[a] # "none"

\* C12: once the body of an action has failed and its runner task has
\* handled the failure, the action is FAILURE with severity normal and
\* WARNING with severity low, and the error has gone to emit_action_error;
\* the run is flagged failed only if a render failed or a body of normal
\* severity failed.
C12_BodyFailure ==
    /\ \A a \in Actions :
          (BodyFailed(a) /\ AfterAwait(a)) => status[a] = FailStatus(a) /\ a \in errReported
    /\ execution_failed =>
          \E a \in Actions : \/ RenderFailed(a)
                             \/ BodyFailed(a) /\ severity[a] = "normal"

\* ------------------------------------------------------------------ C18
\* C18: set_result or set_exception is never attempted on a completion
\* future that is already fulfilled.
C18_FulfilledOnce == ~invalidState

\* ------------------------------------------------------------------ C20
\* C20: in the step in which the runner task of an enabled action renders
\* its arguments (Runner._render_action builds action_states), the status
\* of that action is PENDING.
C20_PendingAtRender ==
    [][\A a \in Actions :
          (enabled[a] /\ rpc[a] = "sched" /\ rpc'[a] # "sched") => status[a] = "PENDING"]_vars

\* ------------------------------------------------------------------ C16
\* the step in which the runner task of a calls display.on_action_start
OnActionStart(a) == dpc[a] = "none" /\ dpc'[a] # "none"

\* the step in which the runner task of a calls display.on_action_finish
OnActionFinish(a) == rpc[a] = "finish" /\ rpc'[a] = "done"

\* C16: on_action_start(a) is called while none of a's events has been
\* forwarded and a is not done; on_action_finish(a) is called while a is
\* done, and no event of a is forwarded after it.
C16_StartAndFinish ==
    [][\A a \in Actions :
          /\ OnActionStart(a) => (forwarded[a] = <<>> /\ ~Done(a))
          /\ OnActionFinish(a) => Done(a)
          /\ (rpc[a] = "done" /\ dpc[a] # "none") => forwarded'[a] = forwarded[a]]_vars

\* ------------------------------------------------------------------ C19
\* C19: no runner task is ended by an exception of a display callback, so
\* that the main task never re-raises one when it awaits the runner tasks.
C19_DisplayErrorsContained == \A a \in Actions : rpc[a] # "unhandled"

\* ------------------------------------------------------------------ C13
\* how the awaits of the user tasks have ended so far
AwaitResults == UNION {{ures[u][i] : i \in 1..Len(ures[u])} : u \in Users}

IsPrefix(s, t) == Len(s) <= Len(t) /\ SubSeq(t, 1, Len(s)) = s

\* C14: what read_events has yielded is at every moment a prefix of what
\* was emitted (each message once, in emission order, the empty string
\* included), and once the reader has finished it has yielded every message
\* emitted before the action was done.
C14_EventsInOrder ==
    \A a \in Actions :
        /\ IsPrefix(forwarded[a], log[a])
        /\ dpc[a] = "done" => early[a] <= Len(forwarded[a])

\* the reader has finished after yielding an empty message and another
\* one, both emitted before the action was done
C14_Witness ==
    \E a \in Actions : dpc[a] = "done" /\ early[a] = 2 /\ forwarded[a] = <<"", "x">>

\* ------------------------------------------------------------------ C15
\* C15: whenever the action is done, the reader of read_events eventually
\* finishes (the generator returns) instead of waiting for further events.
C15_ReaderTerminates ==
    \A a \in {Single[i] : i \in 1..Len(Single)} :
        (a \in Actions /\ Done(a)) ~> (dpc[a] = "done")

\* the reader has finished although its getter was still waiting for a
\* message when the action, which had emitted, became done
C15_Witness ==
    \E a \in Actions :
        /\ dpc[a] = "done"
        /\ gpc[a] = "cancelled"
        /\ bpc[a] \in BodyResults
        /\ Done(a)
        /\ log[a] # <<>>

\* ------------------------------------------------------------------ C17
\* C17: an action enters RUNNING only from PENDING and never comes back to
\* PENDING, its body task is created only when there is none and is never
\* forgotten, so RUNNING is entered and the body started at most once
\* however many tasks await the action; and all the awaits of the action,
\* concurrent or after it finished, end the same way.
C17_StartedOnce ==
    /\ [][\A a \in Actions :
            /\ (status'[a] = "RUNNING" /\ status[a] # "RUNNING") => status[a] = "PENDING"
            /\ status'[a] = "PENDING" => status[a] = "PENDING"
            /\ (bpc'[a] = "sched" /\ bpc[a] # "sched") => bpc[a] = "none"
            /\ bpc'[a] = "none" => bpc[a] = "none"]_vars
    /\ [](Cardinality(AwaitResults) <= 1)

\* every user task has awaited MaxAwaits times an action whose body ran
C17_Witness ==
    \E a \in Actions :
        /\ bpc[a] \in BodyResults
        /\ \A u \in Users : Len(ures[u]) = MaxAwaits

\* ------------------------------------------------------------------ C21
\* every ancestor of d is done
Released(d) == \A m \in AncestorsOf(ancestors, d) : Done(m)

\* an ancestor d depends on strictly has failed, warned or was skipped
StrictlyBroken(d) ==
    \E m \in Actions :
        ancestors[d][m] = "strict" /\ status[m] \in {"FAILURE", "WARNING", "SKIPPED"}

\* the main task sleeps in the asyncio.wait of LooseStrategy._next_action
\* and no completion of an active action is on its way to wake it
Asleep ==
    /\ mpc = "woken"
    /\ Main \in waiting
    /\ running # Main
    /\ \A i \in 1..Len(ready) : ready[i].task # Main

\* C21: under loose, an action whose ancestors are all done and none of
\* whose strict dependencies failed, warned or was skipped is not kept
\* back by the strategy: the strategy does not sleep while such an action
\* waits to be returned, and when the run is over every such action has
\* been emitted and handed to a runner task, whatever became of the
\* ancestors it depends on non-strictly.
C21_LooseNeverBlocks ==
    strategy = "loose" =>
        /\ Asleep => \A d \in blockerKeys : ~Released(d)
        /\ RunOver => \A d \in Actions :
              (Released(d) /\ ~StrictlyBroken(d)) => (d \in emittedSet /\ rpc[d] = "done")

\* the run is over, in which an action was emitted and run although an
\* ancestor it depends on non-strictly failed, warned or was skipped
C21_Witness ==
    /\ strategy = "loose"
    /\ RunOver
    /\ \E d \in Actions, m \in Actions :
          /\ ancestors[d][m] = "loose"
          /\ status[m] \in {"FAILURE", "WARNING", "SKIPPED"}
          /\ d \in emittedSet
          /\ status[d] = "SUCCESS"

\* ------------------------------------------------------------------ C22
\* the strategy has raised StopAsyncIteration
StrategyStopped == mpc \in {"stop", "join", "join_resume", "done"}

\* C22: under loose and strict on an acyclic workflow, the strategy stops
\* only when every action has been emitted and is done or has been skipped
\* by the strategy (so not while an emitted action is still running), and
\* if every action whose body was started eventually completes (its body
\* task is over and the action is done), the strategy does stop.
C22_StrategyStops ==
    /\ [](StrategyStopped =>
            \A a \in Actions : (a \in emittedSet /\ Done(a)) \/ a \in stratSkipped)
    /\ (\A a \in {Pair[i] : i \in 1..Len(Pair)} : (bpc[a] # "none") ~> (bpc[a] \in BodyResults /\ Done(a)))
          => <>StrategyStopped

\* the strategy has stopped in a run of two independent actions where the
\* first to finish released nothing while the other body waited for I/O
C22_Witness ==
    /\ StrategyStopped
    /\ suspends > 0
    /\ emittedSet = Actions
    /\ \A a \in Actions : AncestorsOf(ancestors, a) = {} /\ status[a] = "SUCCESS"

\* ------------------------------------------------------------------ C23
\* C23: under sequential and strict-sequential, the emitted actions are the
\* first ones of the workflow in insertion order, when an action is
\* emitted every action emitted before it is done, and no two actions are
\* RUNNING at the same time.
C23_OneAtATime ==
    IsSequential(strategy) =>
        /\ \A a \in emittedSet : \A b \in Actions : Index(b) < Index(a) => b \in emittedSet
        /\ Emitting => \A a \in emittedSet \ {emitted} : Done(a)
        /\ Cardinality({a \in Actions : status[a] = "RUNNING"}) <= 1

\* ------------------------------------------------------------------ C29
\* C29: a step in which yield_outcome adds a key to the outcomes of an
\* action starts with that action PENDING or RUNNING.
C29_OutcomesWhileLive ==
    [][\A a \in Actions :
          yielded'[a] # yielded[a] => status[a] \in {"PENDING", "RUNNING"}]_vars

\* ------------------------------------------------------------------ C24
\* C24: a workflow that Workflow() has accepted has no action that is its
\* own transitive ancestor.
C24_AcceptedAcyclic == built = "ok" => Acyclic(ancestors)

\* ------------------------------------------------------------------ C25
\* Workflow._descendants_map followed from Workflow._entrypoints: the actions reached from the entrypoints by walks of exactly k
\* descendant edges
RECURSIVE Walk(_, _)
Walk(anc, k) ==
    IF k = 0 THEN Entrypoints(anc)
    ELSE UNION {DescendantsOf(anc, n) : n \in Walk(anc, k - 1)}

\* C25: Workflow() raises the missing-dependencies error exactly when some
\* action declares a non-external ancestor that is no key of the workflow,
\* else the no-entrypoints error exactly when no action is without
\* ancestors, else the unreachable-actions error exactly when some action
\* is not reachable from an entrypoint; a missing external ancestor is
\* popped whatever the outcome, raises nothing by itself, and leaves its
\* action an entrypoint when it has no other ancestor.
C25_IntegrityErrors ==
    [][LET \* n is reachable from an entrypoint along descendant edges
           Reachable(anc, n) == \E k \in 0..Cardinality(DOMAIN anc) : n \in Walk(anc, k)
       IN
       /\ built = "new" =>
            /\ built' = "missing" <=> \E n \in Actions : missing[n] = "plain"
            /\ built' = "no_entrypoints" <=>
                  /\ \A n \in Actions : missing[n] # "plain"
                  /\ \A n \in Actions : AncestorsOf(ancestors, n) # {}
            /\ \A n \in Actions : missing[n] = "external" => missing'[n] = "popped"
       /\ built = "established" =>
            /\ built' = "unreachable" <=> \E n \in Actions : ~Reachable(ancestors, n)
            /\ built' = "ok" <=> \A n \in Actions : Reachable(ancestors, n)]_vars

\* a workflow is accepted in which the only ancestor an action declared was
\* a missing external one, and that action is in tier 0
C25_Witness ==
    /\ built = "ok"
    /\ \E n \in Actions :
          /\ missing[n] = "popped"
          /\ AncestorsOf(ancestors, n) = {}
          /\ \E j \in 1..Len(tiers[1]) : tiers[1][j] = n
    /\ \E n \in Actions : AncestorsOf(ancestors, n) # {}

\* ------------------------------------------------------------------ C26
\* C26: in an accepted workflow every action is in exactly one tier, at
\* one place, and the number of that tier is the length of the shortest
\* path from an entrypoint to it (so tier 0 is the entrypoints);
\* iter_actions_by_tier yields each action at most once, with its tier,
\* in non-decreasing tier order, and all of them when it is exhausted.
C26_TiersAreShortestPaths ==
    LET \* the length of the shortest walk from an entrypoint to n
        ShortestPath(anc, n) ==
            CHOOSE k \in 0..Cardinality(DOMAIN anc) :
                n \in Walk(anc, k) /\ \A j \in 0..(k - 1) : n \notin Walk(anc, j)
    IN
    built = "ok" =>
        /\ \A n \in Actions :
              \E i \in 1..Len(tiers) : \E j \in 1..Len(tiers[i]) :
                  /\ tiers[i][j] = n
                  /\ i - 1 = ShortestPath(ancestors, n)
                  /\ \A k \in 1..Len(tiers) : \A l \in 1..Len(tiers[k]) :
                        tiers[k][l] = n => (k = i /\ l = j)
        /\ \A n \in Actions : (\E j \in 1..Len(tiers[1]) : tiers[1][j] = n)
                                 <=> n \in Entrypoints(ancestors)
        /\ \A p \in 1..Len(iterated) :
              /\ iterated[p][1] = ShortestPath(ancestors, iterated[p][2])
              /\ \A q \in 1..Len(iterated) :
                    /\ p < q => iterated[p][1] <= iterated[q][1]
                    /\ p # q => iterated[p][2] # iterated[q][2]
        /\ ~ENABLED IterActionsByTier =>
              {iterated[p][2] : p \in 1..Len(iterated)} = Actions

\* iter_actions_by_tier is exhausted on a workflow whose last action has
\* paths of length 1 and 2 from the entrypoint and is in tier 1
C26_Witness ==
    /\ built = "ok"
    /\ Len(iterated) = Len(names)
    /\ AncestorsOf(ancestors, "Baz") = {"Foo", "Bar"}
    /\ AncestorsOf(ancestors, "Bar") = {"Foo"}
    /\ iterated[3] = <<1, "Baz">>

\* ------------------------------------------------------------------ C27
\* C27: once BaseStrategy._skip_action has been called on an action, the
\* action is SKIPPED with its future fulfilled, and no call of it, the
\* second included, has met a fulfilled future and raised.
C27_SkipIdempotent ==
    \A a \in stratSkipped :
        /\ status[a] = "SKIPPED"
        /\ fut[a] = "result"
        /\ ~invalidState

\* ------------------------------------------------------------------ C30
\* C30: disable() sets enabled to false only on a PENDING action, whose
\* status it leaves PENDING; a call that raises is made on an action that
\* is not PENDING and changes neither enabled nor the status; a body that
\* calls it ends with the error, and the action then fails as for any
\* other exception of the body.
C30_DisableOnlyPending ==
    [][\A a \in Actions :
          /\ (enabled[a] /\ ~enabled'[a]) =>
                status[a] = "PENDING" /\ status'[a] = "PENDING"
          /\ (a \in refused' /\ a \notin refused) =>
                /\ status[a] # "PENDING"
                /\ enabled' = enabled
                /\ status' = status
                /\ bpc'[a] # bpc[a] => bpc'[a] = "exc"
          /\ (a \in refused /\ bpc[a] = "exc" /\ status[a] = "RUNNING" /\ status'[a] # "RUNNING") =>
                status'[a] = FailStatus(a) /\ fut'[a] = "exception"]_vars

\* disable() has succeeded on an action while it was PENDING; its body,
\* awaited all the same, has called disable() in its turn, and the action
\* has failed
C30_Witness ==
    \E a \in Actions :
        /\ ~enabled[a]
        /\ status[a] = "FAILURE"
        /\ a \in refused
        /\ bpc[a] = "exc"

\* ------------------------------------------------------------------ C28
\* C28: once the body task of an action has been cancelled and every task
\* that awaited it has got the CancelledError, the action's future holds an
\* exception and the action is not RUNNING any more.
C28_CancelledIsDone ==
    \A a \in Actions :
        (bpc[a] = "cancelled" /\ \A u \in Users : upc[u] # "resume") =>
            fut[a] = "exception" /\ status[a] # "RUNNING"

\* ------------------------------------------------------------------ C34
\* C34: in an accepted workflow every ancestor of an action lies in a tier
\* below the tier of the action.
C34_TiersRespectDependencies ==
    built = "ok" =>
        \A i \in 1..Len(tiers) : \A j \in 1..Len(tiers[i]) :
            \A m \in AncestorsOf(ancestors, tiers[i][j]) :
                \E k \in 1..(i - 1) : \E l \in 1..Len(tiers[k]) : tiers[k][l] = m

\* ------------------------------------------------------------------ C35
\* C35: once the body task of an action has ended and the runner task is
\* past its `await action`, the action is done() and its status is
\* terminal.
C35_BodyEndedIsDone ==
    \A a \in Actions :
        (bpc[a] \in BodyResults /\ rpc[a] \in {"raised", "returned", "finish", "done"}) =>
            Done(a) /\ status[a] \in TerminalStatuses

\* ------------------------------------------------------------------ C36
\* C36: when Runner._run_all_actions has returned, every action of the
\* workflow has a terminal status.
C36_AllTerminalAtFinish ==
    RunOver => \A a \in Actions : status[a] \in TerminalStatuses

\* ------------------------------------------------------------------ C37
\* C37: under loose and strict, once on_action_start has been called for an
\* action, on_action_finish has been called for each of its ancestors for
\* which on_action_start was called.
C37_FinishBeforeDescendantStart ==
    IsLoose(strategy) =>
        \A d \in Actions : \A a \in AncestorsOf(ancestors, d) :
            (dpc[d] # "none" /\ dpc[a] # "none") => rpc[a] = "done"

\* a descendant was started after an ancestor that a sub-task of its body
\* had skipped while the body and the drainer were still at work
C37_Witness ==
    /\ IsLoose(strategy)
    /\ \E d \in Actions : \E a \in AncestorsOf(ancestors, d) :
          /\ dpc[d] # "none"
          /\ dpc[a] # "none"
          /\ bmode[a] = "skipped"
          /\ bpc[a] = "skip"

\* ------------------------------------------------------------------ C38
\* C38: under loose and strict, an action skipped by the strategy has an
\* ancestor that is FAILURE, WARNING or SKIPPED; the strategy does not sleep
\* while an action whose ancestors are all done, one of them OMITTED, waits
\* to be returned; and when the run is over an action whose ancestors are
\* all SUCCESS or OMITTED, one of them OMITTED, has been emitted, was not
\* skipped, and its body was started if it is enabled and was rendered.
C38_OmittedNeverSkips ==
    IsLoose(strategy) =>
        /\ \A d \in stratSkipped :
              \E m \in AncestorsOf(ancestors, d) : status[m] \in {"FAILURE", "WARNING", "SKIPPED"}
        /\ Asleep =>
              \A d \in blockerKeys :
                  ~(Released(d) /\ \E m \in AncestorsOf(ancestors, d) : status[m] = "OMITTED")
        /\ RunOver =>
              \A d \in Actions :
                  ( /\ \A m \in AncestorsOf(ancestors, d) : status[m] \in {"SUCCESS", "OMITTED"}
                    /\ \E m \in AncestorsOf(ancestors, d) : status[m] = "OMITTED" )
                  => /\ d \in emittedSet \ stratSkipped
                     /\ rpc[d] = "done"
                     /\ (enabled[d] /\ ~RenderFailed(d)) => bpc[d] \in BodyResults

\* the run is over under strict, or through a strict dependency, in which
\* an action ran to SUCCESS after its only ancestor was OMITTED
C38_Witness ==
    /\ IsLoose(strategy)
    /\ RunOver
    /\ \E d \in Actions, m \in Actions :
          /\ AncestorsOf(ancestors, d) = {m}
          /\ (ancestors[d][m] = "strict" \/ STRICT(strategy))
          /\ status[m] = "OMITTED"
          /\ status[d] = "SUCCESS"

\* ------------------------------------------------------------------ C33
\* C33: for every line ending with a service marker that emit has been
\* given, whatever its verb, the non-empty content before the marker has
\* been put on the action's event queue as a message.
C33_PrefixDelivered ==
    \A a \in Actions : \A l \in scanned :
        l.prefix # "" => \E i \in 1..Len(log[a]) : log[a][i] = l.prefix

\* ------------------------------------------------------ TemplarStringLexer
\* The symbols the input strings are made of: the two of the opener, the
\* closing brace, and a letter (a NAME token of the expression tokenizer)
Symbols == {"@", "{", "}", "x"}
MaxLen == 6
Strings(n) == UNION {[1..k -> Symbols] : k \in 0..n}

\* data[a:b] of Python, for 0 <= a and 0 <= b
Slice(data, a, b) == SubSeq(data, a + 1, IF b > Len(data) THEN Len(data) ELSE b)

\* the loop of _read_expression over the tokens of s from its i-th symbol
\* on, brace_depth being depth: tokenizer.position at the RBRACE that takes
\* the depth below zero, or the StopIteration of a tokenizer out of tokens
RECURSIVE ClosingBrace(_, _, _)
ClosingBrace(s, i, depth) ==
    IF i > Len(s) THEN [stop |-> TRUE, position |-> 0]
    ELSE IF s[i] = "{" THEN ClosingBrace(s, i + 1, depth + 1)
    ELSE IF s[i] = "}"
         THEN IF depth = 0 THEN [stop |-> FALSE, position |-> i - 1]
              ELSE ClosingBrace(s, i + 1, depth - 1)
    ELSE ClosingBrace(s, i + 1, depth)

\* tokenize.untokenize on (type, string) pairs: a space follows every NAME
RECURSIVE Untokenize(_)
Untokenize(s) ==
    IF s = <<>> THEN <<>>
    ELSE IF Head(s) = "x" /\ (Len(s) = 1 \/ s[2] # "x")
         THEN <<"x", " ">> \o Untokenize(Tail(s))
         ELSE <<Head(s)>> \o Untokenize(Tail(s))

\* TemplarStringLexer._read_expression with the caret at c
ReadExpression(data, c) ==
    LET s == Slice(data, c, Len(data))
        p == ClosingBrace(s, 1, 0)
    IN  [stop |-> p.stop, position |-> p.position,
         expression |-> IF p.stop THEN <<>> ELSE Untokenize(SubSeq(s, 1, p.position))]

TEXT == 0
EXPRESSION == 1

\* `yield type, text`, text being data[from:to]; nothing is yielded for an
\* empty text
Yielded(l, type, text, from, to) ==
    IF type = TEXT /\ text = <<>> THEN l
    ELSE [l EXCEPT !.out = Append(@, <<type, text>>),
                   !.spans = Append(@, [type |-> type, from |-> from, to |-> to])]

\* the except clause of __iter__: the rest of the data is yielded as text
LexBreak(l) ==
    [Yielded(l, TEXT, Slice(l.data, l.text_start, Len(l.data)), l.text_start, Len(l.data))
        EXCEPT !.pc = "done"]

\* every variable of the Runner, of the actions and of the event loop, for
\* one action that nothing runs
NoRunner ==
    /\ names = Single
    /\ strategy = "free"
    /\ ancestors \in {w \in Workflows(Single) : EdgeCount(w) = 0}
    /\ Constructed
    /\ emitters = {}
    /\ badDisplay = FALSE
    /\ enabled = [a \in Actions |-> TRUE]
    /\ severity = [a \in Actions |-> "normal"]
    /\ status = [a \in Actions |-> "PENDING"]
    /\ fut = [a \in Actions |-> "pending"]
    /\ yielded = [a \in Actions |-> {}]
    /\ bpc = [a \in Actions |-> "none"]
    /\ bmode = [a \in Actions |-> "normal"]
    /\ refused = {}
    /\ scanned = {}
    /\ suspends = 0
    /\ faults = 0
    /\ rpc = [a \in Actions |-> "none"]
    /\ dpc = [a \in Actions |-> "none"]
    /\ outcomes = [a \in Actions |-> {}]
    /\ execution_failed = FALSE
    /\ mpc = "off"
    /\ unprocessed = <<>>
    /\ current = None
    /\ active = {}
    /\ blockers = [n \in Actions |-> {}]
    /\ blockerKeys = {}
    /\ nextAction = None
    /\ emitted = None
    /\ actionRunners = <<>>
    /\ finList = <<>>
    /\ ready = <<>>
    /\ running = Idle
    /\ futCbs = [a \in Actions |-> <<>>]
    /\ taskCbs = [t \in TaskIds |-> <<>>]
    /\ waiting = {}
    /\ queue = [a \in Actions |-> <<>>]
    /\ gpc = [a \in Actions |-> "none"]
    /\ gres = [a \in Actions |-> None]
    /\ emits = 0
    /\ upc = [u \in Users |-> "none"]
    /\ ures = [u \in Users |-> <<>>]
    /\ forwarded = [a \in Actions |-> <<>>]
    /\ log = [a \in Actions |-> <<>>]
    /\ early = [a \in Actions |-> 0]
    /\ emittedSet = {}
    /\ reEmitted = {}
    /\ stratSkipped = {}
    /\ errReported = {}
    /\ invalidState = FALSE

\* TemplarStringLexer(data) for every string of at most MaxLen symbols,
\* __iter__ having set its locals
InitLexer ==
    /\ NoRunner
    /\ templar = NoTemplar
    /\ \E data \in Strings(MaxLen) :
          lexer = [pc |-> "iter", data |-> data, caret |-> 0, armed_at |-> FALSE,
                   text_start |-> 0, out |-> <<>>, spans |-> <<>>]

NotLexer ==
    <<names, strategy, ancestors, enabled, refused, scanned, severity, emitters, badDisplay,
      workflowVars, templar, eventVars, userVars, actionVars, bodyVars, rpc, dpc, outcomes,
      execution_failed, strategyVars, mainVars, loopVars, historyVars>>

\* _get_symbol raises EOFError: the rest is yielded as text, the loop is left
LexEOF ==
    /\ lexer.pc = "iter"
    /\ lexer.caret >= Len(lexer.data)
    /\ lexer' = LexBreak(lexer)
    /\ UNCHANGED NotLexer

\* the symbol is "@": each second one disarms
LexAt ==
    /\ lexer.pc = "iter"
    /\ lexer.caret < Len(lexer.data)
    /\ lexer.data[lexer.caret + 1] = "@"
    /\ lexer' = [lexer EXCEPT !.caret = @ + 1, !.armed_at = ~@]
    /\ UNCHANGED NotLexer

\* the symbol is "{" after an arming "@": the text before the pair is
\* yielded, then the expression _read_expression returns; text_start is set
\* after the closing brace, _caret stays where it is.  A StopIteration from
\* the tokenizer ends the iteration as an EOFError does.
LexOpen ==
    /\ lexer.pc = "iter"
    /\ lexer.caret < Len(lexer.data)
    /\ lexer.data[lexer.caret + 1] = "{"
    /\ lexer.armed_at
    /\ LET caret == lexer.caret + 1
           l1 == Yielded([lexer EXCEPT !.caret = caret], TEXT,
                         Slice(lexer.data, lexer.text_start, caret - 2),
                         lexer.text_start, caret - 2)
           e == ReadExpression(lexer.data, caret)
       IN  lexer' = IF e.stop
                    THEN LexBreak(l1)
                    ELSE [Yielded(l1, EXPRESSION, e.expression, caret, caret + e.position)
                            EXCEPT !.text_start = caret + e.position + 1,
                                   !.armed_at = FALSE]
    /\ UNCHANGED NotLexer

\* any other symbol disarms
LexOther ==
    /\ lexer.pc = "iter"
    /\ lexer.caret < Len(lexer.data)
    /\ lexer.data[lexer.caret + 1] # "@"
    /\ ~(lexer.data[lexer.caret + 1] = "{" /\ lexer.armed_at)
    /\ lexer' = [lexer EXCEPT !.caret = @ + 1, !.armed_at = FALSE]
    /\ UNCHANGED NotLexer

NextLexer ==
    \/ LexEOF
    \/ LexAt
    \/ LexOpen
    \/ LexOther

SpecLexer == InitLexer /\ [][NextLexer]_vars

\* C40: the lexer consumes each character once: once an expression was
\* yielded the caret is at or after the text start (scanning has resumed
\* after the closing brace), and the parts yielded follow each other in the
\* input, none starting before the end of the one before (no part is yielded
\* twice, no symbol of a yielded expression opens another, also when the
\* last expression is unterminated)
C40_EachCharacterOnce ==
    /\ (lexer.pc = "iter" /\ \E i \in 1..Len(lexer.spans) : lexer.spans[i].type = EXPRESSION)
          => lexer.caret >= lexer.text_start
    /\ \A i, j \in 1..Len(lexer.spans) :
          i < j => lexer.spans[i].to <= lexer.spans[j].from

\* ------------------------------------------------------------------ Templar
\* The strings given to render and kept in the context, by what they hold:
\* no "@{" at all, or one expression looking up a context key, an outcome of
\* an action, or the status of an action
Text == [k |-> "text", name |-> None, key |-> None]
CtxRef(key) == [k |-> "ctx", name |-> None, key |-> key]
OutRef(name, key) == [k |-> "out", name |-> name, key |-> key]
StatusRef(name) == [k |-> "status", name |-> name, key |-> None]

\* the arguments of Templar(): Foo is the one action, SUCCESS, with the
\* outcome bar; the context has the keys a and b
ActionStates == [Foo |-> "SUCCESS"]
OutcomesMap == [Foo |-> [bar |-> "ok"]]
CtxKeys == {"a", "b"}
Contexts == [CtxKeys -> {Text} \cup {CtxRef(key) : key \in CtxKeys}]
Renderables ==
    {Text} \cup {CtxRef(key) : key \in CtxKeys \cup {"c"}}
           \cup {OutRef(name, key) : name \in {"Foo", "Nope"}, key \in {"bar", "baz"}}
           \cup {StatusRef(name) : name \in {"Foo", "Nope"}}
MaxRenders == 2

MAX_RECURSION_DEPTH == 16

NoError == [type |-> None, msg |-> None, arg |-> None, at |-> 0]
RenderError(msg, arg) == [type |-> "ActionRenderError", msg |-> msg, arg |-> arg, at |-> 0]
Returns(v) == [raised |-> FALSE, value |-> v, exc |-> NoError]
Raises(e) == [raised |-> TRUE, value |-> None, exc |-> e]

\* LooseDict.__getitem__: a missing key is the empty string
LooseDict(d, item) == IF item \in DOMAIN d THEN Returns(d[item]) ELSE Returns("")

\* (variant) the strict leaf falls back to the empty string as the loose one
StrictOutcomeDictLoose(d, item) == LooseDict(d, item)

\* StrictOutcomeDict.__getitem__
StrictOutcomeDict(d, item) ==
    IF item \in DOMAIN d THEN Returns(d[item])
    ELSE Raises(RenderError("Outcome key not found", item))

\* ActionContainingDict.__getitem__ on a name that is no key
ActionNotFound(item) == Raises(RenderError("Action not found", item))

\* eval of outcomes.<name>.<key>: the container built by Templar.__init__
\* holds a leaf for every name of action_states, strict or loose as
\* C.STRICT_OUTCOMES_RENDERING says
EvalOutcome(strict, name, key) ==
    IF name \notin DOMAIN ActionStates THEN ActionNotFound(name)
    ELSE LET leaf == IF name \in DOMAIN OutcomesMap THEN OutcomesMap[name] ELSE <<>>
         IN  IF strict THEN StrictOutcomeDict(leaf, key) ELSE LooseDict(leaf, key)

\* eval of status.<name>
EvalStatus(name) ==
    IF name \notin DOMAIN ActionStates THEN ActionNotFound(name)
    ELSE Returns(ActionStates[name])

\* Templar(outcomes_map, action_states, context_map) in either mode, for
\* every context over the two keys; no render call was made
InitRender ==
    /\ NoRunner
    /\ lexer = NoLexer
    /\ \E strict \in BOOLEAN, context \in Contexts :
          templar = [pc |-> "idle", strict |-> strict, context |-> context,
                     cache |-> [key \in CtxKeys |-> None], depth |-> 0, frames |-> <<>>,
                     res |-> Returns(None), renders |-> 0, value |-> Text, before |-> 0,
                     results |-> {}]

NotTemplar ==
    <<names, strategy, ancestors, enabled, refused, scanned, severity, emitters, badDisplay,
      workflowVars, lexer, eventVars, userVars, actionVars, bodyVars, rpc, dpc, outcomes,
      execution_failed, strategyVars, mainVars, loopVars, historyVars>>

\* Templar.render(value) is called: it calls _internal_render(value)
Render ==
    /\ templar.pc = "idle"
    /\ templar.renders < MaxRenders
    /\ \E value \in Renderables :
          templar' = [templar EXCEPT !.pc = "enter", !.renders = @ + 1, !.value = value,
                                     !.before = templar.depth,
                                     !.frames = <<[value |-> value, key |-> None]>>]
    /\ UNCHANGED NotTemplar

\* (variant) the cap is passed only when the depth is above it
EnterAbove ==
    /\ templar.pc = "enter"
    /\ LET depth == templar.depth + 1
       IN  templar' =
             IF depth > MAX_RECURSION_DEPTH
             THEN [templar EXCEPT !.depth = depth, !.pc = "raise",
                                  !.frames = SubSeq(@, 1, Len(@) - 1),
                                  !.res = Raises([type |-> "ActionRenderRecursionError",
                                                  msg |-> "Recursion depth exceeded",
                                                  arg |-> None, at |-> depth])]
             ELSE [templar EXCEPT !.depth = depth, !.pc = "try"]
    /\ UNCHANGED NotTemplar

\* _internal_render is entered: the depth is counted, and at the cap
\* ActionRenderRecursionError is raised before the try statement, so that
\* the call ends with no finally clause run
Enter ==
    /\ templar.pc = "enter"
    /\ LET depth == templar.depth + 1
       IN  templar' =
             IF depth >= MAX_RECURSION_DEPTH
             THEN [templar EXCEPT !.depth = depth, !.pc = "raise",
                                  !.frames = SubSeq(@, 1, Len(@) - 1),
                                  !.res = Raises([type |-> "ActionRenderRecursionError",
                                                  msg |-> "Recursion depth exceeded",
                                                  arg |-> None, at |-> depth])]
             ELSE [templar EXCEPT !.depth = depth, !.pc = "try"]
    /\ UNCHANGED NotTemplar

\* the try body of the innermost _internal_render: a string with no "@{" is
\* returned as it is; an expression is evaluated by _eval, where the
\* containers return or raise ActionRenderError; a context value that
\* holds "@{" is a LazyProxy, so that str() of it calls _internal_render on
\* the value unless the proxy has kept an earlier result
Eval ==
    /\ templar.pc = "try"
    /\ LET value == templar.frames[Len(templar.frames)].value
           done(r) == [templar EXCEPT !.pc = IF r.raised THEN "raise" ELSE "return", !.res = r]
       IN  templar' =
             CASE value.k = "text" -> done(Returns("v"))
               [] value.k = "out" -> done(EvalOutcome(templar.strict, value.name, value.key))
               [] value.k = "status" -> done(EvalStatus(value.name))
               [] value.k = "ctx" ->
                    IF value.key \notin CtxKeys
                    THEN done(Raises(RenderError("Context key not found", value.key)))
                    ELSE IF templar.context[value.key].k = "text" THEN done(Returns("v"))
                    ELSE IF templar.cache[value.key] # None
                    THEN done(Returns(templar.cache[value.key]))
                    ELSE [templar EXCEPT !.pc = "enter",
                                         !.frames = Append(@, [value |-> templar.context[value.key],
                                                               key |-> value.key])]
    /\ UNCHANGED NotTemplar

\* the innermost _internal_render returns through its finally clause; the
\* proxy that called it keeps the result, and the caller, whose string is
\* that one expression, returns it in turn
Return ==
    /\ templar.pc = "return"
    /\ Len(templar.frames) > 1
    /\ LET frame == templar.frames[Len(templar.frames)]
       IN  templar' = [templar EXCEPT !.depth = @ - 1,
                                      !.frames = SubSeq(@, 1, Len(@) - 1),
                                      !.cache[frame.key] = templar.res.value]
    /\ UNCHANGED NotTemplar

\* the outermost _internal_render returns, and render returns its string
RenderReturns ==
    /\ templar.pc = "return"
    /\ Len(templar.frames) = 1
    /\ templar' = [templar EXCEPT !.depth = @ - 1, !.frames = <<>>, !.pc = "idle",
                                  !.results = @ \cup {[value |-> templar.value, res |-> templar.res,
                                                       before |-> templar.before,
                                                       after |-> templar.depth - 1]}]
    /\ UNCHANGED NotTemplar

\* an exception leaves a call of _internal_render that is inside its try
\* statement: the finally clause runs
Unwind ==
    /\ templar.pc = "raise"
    /\ Len(templar.frames) > 0
    /\ templar' = [templar EXCEPT !.depth = @ - 1, !.frames = SubSeq(@, 1, Len(@) - 1)]
    /\ UNCHANGED NotTemplar

\* the exception reaches render: ActionRenderRecursionError is turned into
\* an ActionRenderError of the same message, ActionRenderError is re-raised
RenderRaises ==
    /\ templar.pc = "raise"
    /\ Len(templar.frames) = 0
    /\ LET res == [templar.res EXCEPT !.exc.type = "ActionRenderError"]
       IN  templar' = [templar EXCEPT !.pc = "idle", !.res = res,
                                      !.results = @ \cup {[value |-> templar.value, res |-> res,
                                                           before |-> templar.before,
                                                           after |-> templar.depth]}]
    /\ UNCHANGED NotTemplar

\* what a call of render does once made
RenderStep ==
    \/ Enter
    \/ Eval
    \/ Return
    \/ RenderReturns
    \/ Unwind
    \/ RenderRaises

NextRender ==
    \/ Render
    \/ Enter
    \/ Eval
    \/ Return
    \/ RenderReturns
    \/ Unwind
    \/ RenderRaises

\* render is synchronous: a call made runs to its end
SpecRender == InitRender /\ [][NextRender]_vars /\ WF_vars(RenderStep)

\* C39: the call depth is restored by every top-level render call: when
\* render has returned or raised, _depth is what it was before the call, and
\* two calls of render on the same string end the same way whatever failed
\* in between
C39_DepthRestored ==
    /\ \A r \in templar.results : r.after = r.before
    /\ \A r1, r2 \in templar.results : r1.value = r2.value => r1.res = r2.res

\* C32: rendering a reference to a context key that lies on a reference
\* cycle ends: no more than MAX_RECURSION_DEPTH calls of _internal_render are
\* ever nested, every call of render comes to its end, and the call for
\* such a key raises ActionRenderError saying the recursion depth was exceeded
C32_CycleRaises ==
    /\ [](/\ Len(templar.frames) <= MAX_RECURSION_DEPTH
          /\ \A r \in templar.results :
                LET ref(key) == IF templar.context[key].k = "ctx"
                                THEN templar.context[key].key ELSE None
                    onCycle(key) == \/ ref(key) = key
                                    \/ ref(key) \in CtxKeys /\ ref(ref(key)) = key
                IN  (r.value.k = "ctx" /\ r.value.key \in CtxKeys /\ onCycle(r.value.key))
                        => /\ r.res.raised
                           /\ r.res.exc.type = "ActionRenderError"
                           /\ r.res.exc.msg = "Recursion depth exceeded")
    /\ (templar.pc # "idle" ~> templar.pc = "idle")

\* a -> @{b}, b -> @{a}: render of "@{ctx.a}" has raised, the recursion
\* depth exceeded at the cap
C32_Witness ==
    /\ templar.pc = "idle"
    /\ templar.context["a"] = CtxRef("b")
    /\ templar.context["b"] = CtxRef("a")
    /\ \E r \in templar.results :
          /\ r.value = CtxRef("a")
          /\ r.res.raised
          /\ r.res.exc.msg = "Recursion depth exceeded"
          /\ r.res.exc.at = MAX_RECURSION_DEPTH

\* C31: outcomes[name][key] for the action Foo and a key it has not yielded
\* raises ActionRenderError "Outcome key '<key>' not found" in strict mode
\* and is the empty string in loose mode; outcomes[name] and status[name]
\* for a name that is no action raise "Action not found" in both modes.
\* Stated of the evaluation of the expression, and of every render call
\* that came to evaluate it.
C31_MissingKeyAndAction ==
    LET expected(value, res) ==
            /\ (value.k = "out" /\ value.name = "Foo" /\ value.key = "baz") =>
                  IF templar.strict
                  THEN /\ res.raised
                       /\ res.exc.type = "ActionRenderError"
                       /\ res.exc.msg = "Outcome key not found"
                       /\ res.exc.arg = "baz"
                  ELSE ~res.raised /\ res.value = ""
            /\ (value.k \in {"out", "status"} /\ value.name = "Nope") =>
                  /\ res.raised
                  /\ res.exc.type = "ActionRenderError"
                  /\ res.exc.msg = "Action not found"
                  /\ res.exc.arg = "Nope"
    IN  /\ (templar.pc \in {"return", "raise"} /\ Len(templar.frames) > 0) =>
              expected(templar.frames[Len(templar.frames)].value, templar.res)
        /\ \A r \in templar.results :
              r.res.exc.msg # "Recursion depth exceeded" => expected(r.value, r.res)

\* in strict mode, a missing outcome key and a missing action were rendered
C31_Witness ==
    /\ templar.pc = "idle"
    /\ templar.strict
    /\ \E r1, r2 \in templar.results :
          /\ r1.value = OutRef("Foo", "baz")
          /\ r1.res.exc.msg = "Outcome key not found"
          /\ r2.value = StatusRef("Nope")
          /\ r2.res.exc.msg = "Action not found"

====
